---------------------------- MODULE Spec2Model ----------------------------
(***************************************************************************)
(* A model of the pricing engine of options-decoded (src/utils.py) and of  *)
(* the signal engine that consumes it.                                     *)
(*                                                                         *)
(* Real numbers are fixed-point integers: a value v stands for v / Scale.  *)
(* Spot and strike are whole dollars; prices, rates, volatilities, times   *)
(* and deltas carry the factor Scale.  Python's None is the empty tuple    *)
(* and a present value v is <<v>>.                                         *)
(***************************************************************************)
EXTENDS Integers, Sequences, FiniteSets, TLC

(***************************************************************************)
(* Fixed-point arithmetic: what numpy's float arithmetic does, kept to six *)
(* decimals in 32-bit integers.                                            *)
(***************************************************************************)
Scale == 10 ^ 6

\* The square root of Scale: products are formed from half-words.
Half == 10 ^ 3

\* The largest magnitude the arithmetic keeps: +-inf saturate to +-Cap.
Cap == 100 * Scale

\* numpy's nan.
NaN == -(2 ^ 30)

None == << >>

Some(v) == << v >>

Abs(x) == IF x < 0 THEN -x ELSE x

Max(a, b) == IF a >= b THEN a ELSE b

Min(a, b) == IF a <= b THEN a ELSE b

Sgn(x) == IF x > 0 THEN 1 ELSE IF x < 0 THEN -1 ELSE 0

Clamp(x) == Max(-Cap, Min(Cap, x))

\* n / d for an integer n and d > 0, rounded to the nearest integer.
Round(n, d) == (n + d \div 2) \div d

\* a * b for fixed-point a and b, rounded to the nearest unit.
Mul(a, b) ==
    LET a1 == a \div Half
        a0 == a % Half
        b1 == b \div Half
        b0 == b % Half
    IN  a1 * b1 + Round(a1 * b0 + a0 * b1 + Round(a0 * b0, Half), Half)

RECURSIVE LongDiv(_, _, _, _)
\* The first `digits` decimals of rem / d (0 <= rem < d), after acc.
LongDiv(rem, d, digits, acc) ==
    IF digits = 0 THEN acc + (IF 2 * rem >= d THEN 1 ELSE 0)
    ELSE LongDiv((rem * 10) % d, d, digits - 1, acc * 10 + (rem * 10) \div d)

\* a / b for fixed-point a, b as numpy divides floats: x / 0 is +-inf
\* (saturated to +-Cap) and 0 / 0 is nan.
Div(a, b) ==
    IF b = 0 THEN (IF a > 0 THEN Cap ELSE IF a < 0 THEN -Cap ELSE NaN)
    ELSE LET n == IF b < 0 THEN -a ELSE a
             d == Abs(b)
             q == n \div d
         IN  IF q >= Cap \div Scale THEN Cap
             ELSE IF q < -(Cap \div Scale) THEN -Cap
             ELSE q * Scale + LongDiv(n % d, d, 6, 0)

RECURSIVE ISqrtBetween(_, _, _)
\* The largest i in lo..hi with i * i <= n.
ISqrtBetween(n, lo, hi) ==
    IF lo >= hi THEN lo
    ELSE LET mid == (lo + hi + 1) \div 2
         IN  IF mid * mid <= n THEN ISqrtBetween(n, mid, hi)
             ELSE ISqrtBetween(n, lo, mid - 1)

RECURSIVE Newton(_, _, _)
\* Newton's iteration s <- (s + x / s) / 2 for the square root of x.
Newton(x, s, steps) ==
    IF steps = 0 \/ s = 0 THEN s
    ELSE Newton(x, (s + Div(x, s)) \div 2, steps - 1)

\* np.sqrt(x), x >= 0 fixed-point.
Sqrt(x) == Newton(x, ISqrtBetween(x, 0, 46340) * Half, 3)

RECURSIVE ExpTaylor(_, _, _, _)
\* 1 + f + f^2/2! + ... : term is the last term added, acc the sum so far.
ExpTaylor(f, n, term, acc) ==
    IF term = 0 \/ n > 16 THEN acc
    ELSE LET next == Round(Mul(term, f), n)
         IN  ExpTaylor(f, n + 1, next, acc + next)

RECURSIVE Pow2(_)
Pow2(k) == IF k <= 0 THEN 1 ELSE 2 * Pow2(k - 1)

\* ln 2.
Ln2 == 693147

\* 2^k * ef, saturated.
Shift(ef, k) ==
    IF k >= 7 THEN Cap
    ELSE IF k >= 0 THEN Min(Cap, ef * Pow2(k))
    ELSE IF k < -24 THEN 0
    ELSE Round(ef, Pow2(-k))

\* np.exp(x): x = k ln 2 + f with 0 <= f < ln 2, exp(x) = 2^k exp(f).
Exp(x) == Shift(ExpTaylor(x % Ln2, 1, Scale, Scale), x \div Ln2)

\* y + y^3/3 + y^5/5 + y^7/7 + y^9/9, given y and y2 = y^2.
AtanhSeries(y, y2) ==
    y + Mul(Mul(y, y2),
            Round(Scale, 3) + Mul(y2, Round(Scale, 5)
                + Mul(y2, Round(Scale, 7) + Mul(y2, Round(Scale, 9)))))

\* ln m = 2 atanh(y) for y = (m - 1) / (m + 1).
LnOfRatio(y) == 2 * AtanhSeries(y, Mul(y, y))

RECURSIVE LnReduced(_, _)
\* ln(x) for x > 0 by halving or doubling x into [3/4, 3/2), k counts the
\* steps.
LnReduced(x, k) ==
    IF x >= 3 * (Scale \div 2) THEN LnReduced(x \div 2, k + 1)
    ELSE IF x < 3 * (Scale \div 4) THEN LnReduced(x * 2, k - 1)
    ELSE k * Ln2 + LnOfRatio(Div(x - Scale, x + Scale))

\* np.log(x): log(0) is -inf, the log of a negative number is nan.
Ln(x) == IF x = 0 THEN -Cap ELSE IF x < 0 THEN NaN ELSE LnReduced(x, 0)

\* norm.pdf(x) = exp(-x^2 / 2) / sqrt(2 pi).
NormPdf(x) ==
    IF x = NaN THEN NaN
    ELSE IF Abs(x) >= 8 * Scale THEN 0
    ELSE Mul(Exp(-(Mul(x, x) \div 2)), 398942)

\* The polynomial of Abramowitz and Stegun 26.2.17 in t = 1 / (1 + p x).
CdfPoly(t) ==
    Mul(t, 319382 + Mul(t, -356564 + Mul(t, 1781478
        + Mul(t, -1821256 + Mul(t, 1330274)))))

\* norm.cdf(x) for x >= 0.
NormCdfPos(x) ==
    IF x >= 8 * Scale THEN Scale
    ELSE Scale - Mul(NormPdf(x), CdfPoly(Div(Scale, Scale + Mul(x, 231642))))

\* norm.cdf(x): the standard normal distribution function.
NormCdf(x) ==
    IF x = NaN THEN NaN
    ELSE IF x >= 0 THEN NormCdfPos(x)
    ELSE Scale - NormCdfPos(-x)

(***************************************************************************)
(* Python values and outcomes.  A call either returns a value or raises.   *)
(***************************************************************************)
Returned(v) == [exc |-> "", ret |-> v]

Raised(e) == [exc |-> e, ret |-> None]

\* Python's truth value of an optional number: None and 0 are false.
Truthy(x) == x # None /\ x[1] # 0

(***************************************************************************)
(* Pricing models (src/utils.py).  S0 and K are whole dollars as the       *)
(* Python floats the app passes, so S0 / K raises when K is 0.             *)
(***************************************************************************)
\* (num / sigma) / sqrt(T), nan when the logarithm or the quotient is.
D1Quotient(lg, q, T) == IF lg = NaN \/ q = NaN THEN NaN ELSE Div(q, Sqrt(T))

\* The numerator of d1 divided by sigma, given lg = np.log(S0 / K).
D1OverSigma(lg, r, sigma, T) ==
    D1Quotient(lg, Div(Clamp(lg + Mul(r + Mul(sigma, sigma) \div 2, T)),
                       sigma), T)

\* d1 = (np.log(S0 / K) + (r + 0.5 * sigma ** 2) * T) / (sigma * np.sqrt(T))
\* The quotient is taken as (num / sigma) / sqrt(T) so that a small positive
\* sigma * sqrt(T) does not round to zero.
D1(S0, K, r, sigma, T) == D1OverSigma(Ln((S0 * Scale) \div K), r, sigma, T)

\* d2 = d1 - sigma * np.sqrt(T)
D2(d1, sigma, T) == IF d1 = NaN THEN NaN ELSE d1 - Mul(sigma, Sqrt(T))

\* K * np.exp(-r * T)
DiscountedStrike(K, r, T) == K * Exp(-Mul(r, T))

\* max(S0 - K, 0) for a call, max(K - S0, 0) otherwise.
Intrinsic(S0, K, option_type) ==
    IF option_type = "call" THEN Max(S0 - K, 0) * Scale
    ELSE Max(K - S0, 0) * Scale

\* The test with "and" for "or": zero volatility alone reaches the formula.
BSDegenerateBoth(sigma, T) == T <= 0 /\ sigma <= 0

\* The test that routes black_scholes_price to the intrinsic value.
BSDegenerate(sigma, T) == T <= 0 \/ sigma <= 0

\* Lines 95 to 97, given d1, d2 and Kd = K * np.exp(-r * T).
BSValue(S0, Kd, d1, d2, option_type) ==
    IF d1 = NaN THEN NaN
    ELSE IF option_type = "call"
    THEN S0 * NormCdf(d1) - Mul(Kd, NormCdf(d2))
    ELSE Mul(Kd, NormCdf(-d2)) - S0 * NormCdf(-d1)

\* Lines 94 to 97, given d1.
BSFromD1(S0, K, r, sigma, T, option_type, d1) ==
    BSValue(S0, DiscountedStrike(K, r, T), d1, D2(d1, sigma, T), option_type)

\* The closed form of black_scholes_price, lines 93 to 97.
BSFormula(S0, K, r, sigma, T, option_type) ==
    BSFromD1(S0, K, r, sigma, T, option_type, D1(S0, K, r, sigma, T))

black_scholes_price(S0, K, r, sigma, T, option_type) ==
    IF BSDegenerate(sigma, T)
    THEN Returned(Some(Intrinsic(S0, K, option_type)))
    ELSE IF K = 0 THEN Raised("ZeroDivisionError")
    ELSE Returned(Some(BSFormula(S0, K, r, sigma, T, option_type)))

(***************************************************************************)
(* Greeks.                                                                 *)
(***************************************************************************)
GreekNames == {"delta", "gamma", "vega", "theta", "rho"}

\* The test with only the expiry checked: zero volatility reaches the formula.
GreeksDegenerateExpired(sigma, T) == T <= 0

\* The test that routes compute_greeks to the all-zero result.
GreeksDegenerate(sigma, T) == T <= 0 \/ sigma <= 0

ZeroGreeks == [delta |-> 0, gamma |-> 0, vega |-> 0, theta |-> 0, rho |-> 0]

\* Lines 132 to 140, given gamma, vega, decay = S0 pdf_d1 sigma / (2 sqrt T)
\* and carry = K exp(-r T) norm.cdf(d2) for a call, norm.cdf(-d2) for a put.
GreeksRecord(delta, gamma, vega, decay, carry, r, T, option_type) ==
    IF option_type = "call"
    THEN [delta |-> delta,
          gamma |-> gamma,
          vega |-> vega,
          theta |-> (-decay - Mul(carry, r)) \div 365,
          rho |-> Mul(carry, T) \div 100]
    ELSE [delta |-> delta - Scale,
          gamma |-> gamma,
          vega |-> vega,
          theta |-> (-decay + Mul(carry, r)) \div 365,
          rho |-> -(Mul(carry, T) \div 100)]

\* Lines 129 to 140, given d1, d2, pdf_d1 = norm.pdf(d1) and np.sqrt(T).
GreeksValues(S0, K, r, sigma, T, option_type, d1, d2, pdf_d1, sqrtT) ==
    GreeksRecord(NormCdf(d1),
                 Div(Div(pdf_d1, sigma), sqrtT) \div S0,
                 (S0 * Mul(pdf_d1, sqrtT)) \div 100,
                 Div(S0 * Mul(pdf_d1, sigma), 2 * sqrtT),
                 Mul(DiscountedStrike(K, r, T),
                     NormCdf(IF option_type = "call" THEN d2 ELSE -d2)),
                 r, T, option_type)

\* Lines 128 to 140, given d1.
GreeksFromD1(S0, K, r, sigma, T, option_type, d1) ==
    IF d1 = NaN
    THEN [delta |-> NaN, gamma |-> NaN, vega |-> NaN, theta |-> NaN,
          rho |-> NaN]
    ELSE GreeksValues(S0, K, r, sigma, T, option_type, d1, D2(d1, sigma, T),
                      NormPdf(d1), Sqrt(T))

\* compute_greeks, lines 127 to 140.
GreeksFormula(S0, K, r, sigma, T, option_type) ==
    GreeksFromD1(S0, K, r, sigma, T, option_type, D1(S0, K, r, sigma, T))

compute_greeks(S0, K, r, sigma, T, option_type) ==
    IF GreeksDegenerate(sigma, T) THEN Returned(Some(ZeroGreeks))
    ELSE IF K = 0 THEN Raised("ZeroDivisionError")
    ELSE Returned(Some(GreeksFormula(S0, K, r, sigma, T, option_type)))

(***************************************************************************)
(* Implied volatility.                                                     *)
(***************************************************************************)
\* The bracket and the iteration budget of brentq(f, 1e-4, 10.0, maxiter=500).
BracketLo == 100
BracketHi == 10 * Scale
MaxIter == 500

\* f = lambda sigma: black_scholes_price(S0, K, r, sigma, T, option_type)
\*                   - market_price
\* p - market_price for the outcome p of black_scholes_price.
Minus(p, market_price) ==
    IF p.exc # "" THEN p
    ELSE IF p.ret[1] = NaN THEN Returned(Some(NaN))
    ELSE Returned(Some(p.ret[1] - market_price))

F(a, sigma) ==
    Minus(black_scholes_price(a.S0, a.K, a.r, sigma, a.T, a.option_type),
          a.market_price)

\* The bracket [lo, hi] the root finder holds, f at its ends, and the
\* iterations spent.
Bracket(lo, flo, hi, fhi, iter) ==
    [lo |-> lo, flo |-> flo, hi |-> hi, fhi |-> fhi, iter |-> iter]

\* A step of the root finder ends with an outcome or goes on with a bracket.
Finished(out) == [out |-> Some(out), st |-> None]

GoesOn(st) == [out |-> None, st |-> Some(st)]

\* The entry without the test for a sign change over the bracket.
BrentqEntryUnchecked(lo, hi, fa, fb) ==
    IF fa.exc # "" THEN Finished(fa)
    ELSE IF fb.exc # "" THEN Finished(fb)
    ELSE IF fa.ret[1] = NaN \/ fb.ret[1] = NaN
         THEN Finished(Raised("ValueError"))
    ELSE IF fa.ret[1] = 0 THEN Finished(Returned(Some(lo)))
    ELSE IF fb.ret[1] = 0 THEN Finished(Returned(Some(hi)))
    ELSE GoesOn(Bracket(lo, fa.ret[1], hi, fb.ret[1], 0))

\* scipy.optimize.brentq by its contract, the entry: an exception of f
\* propagates, a bracket without a sign change raises ValueError, a zero at
\* an end is returned at once.
BrentqEntry(lo, hi, fa, fb) ==
    IF fa.exc # "" THEN Finished(fa)
    ELSE IF fb.exc # "" THEN Finished(fb)
    ELSE IF fa.ret[1] = NaN \/ fb.ret[1] = NaN
         THEN Finished(Raised("ValueError"))
    ELSE IF Sgn(fa.ret[1]) * Sgn(fb.ret[1]) > 0
         THEN Finished(Raised("ValueError"))
    ELSE IF fa.ret[1] = 0 THEN Finished(Returned(Some(lo)))
    ELSE IF fb.ret[1] = 0 THEN Finished(Returned(Some(hi)))
    ELSE GoesOn(Bracket(lo, fa.ret[1], hi, fb.ret[1], 0))

\* brentq(f, lo, hi) up to its first iteration.
BrentqStart(a, lo, hi) == BrentqEntry(lo, hi, F(a, lo), F(a, hi))

\* The bracket s narrowed by f's value fm at mid.
BrentqNarrow(s, mid, fm) ==
    IF fm.exc # "" THEN Finished(fm)
    ELSE IF fm.ret[1] = NaN THEN Finished(Raised("ValueError"))
    ELSE IF fm.ret[1] = 0 THEN Finished(Returned(Some(mid)))
    ELSE IF Sgn(fm.ret[1]) = Sgn(s.flo)
         THEN GoesOn(Bracket(mid, fm.ret[1], s.hi, s.fhi, s.iter + 1))
         ELSE GoesOn(Bracket(s.lo, s.flo, mid, fm.ret[1], s.iter + 1))

\* The iteration with a tolerance of a hundredth: it ends as soon as the
\* bracket is that narrow.
BrentqStepCoarse(a, s, maxiter) ==
    IF s.hi - s.lo <= Scale \div 100
    THEN Finished(Returned(Some(IF Abs(s.flo) <= Abs(s.fhi) THEN s.lo
                                ELSE s.hi)))
    ELSE IF s.iter >= maxiter THEN Finished(Raised("RuntimeError"))
    ELSE BrentqNarrow(s, (s.lo + s.hi) \div 2, F(a, (s.lo + s.hi) \div 2))

\* One iteration: it ends on a zero of f, when the bracket is one unit wide
\* (the tolerance), or with RuntimeError when the budget is spent, and else
\* keeps the half of the bracket over which f changes sign.
BrentqStep(a, s, maxiter) ==
    IF s.hi - s.lo <= 1
    THEN Finished(Returned(Some(IF Abs(s.flo) <= Abs(s.fhi) THEN s.lo
                                ELSE s.hi)))
    ELSE IF s.iter >= maxiter THEN Finished(Raised("RuntimeError"))
    ELSE BrentqNarrow(s, (s.lo + s.hi) \div 2, F(a, (s.lo + s.hi) \div 2))

\* The precondition without its comparison to the intrinsic value.
IVRejectsNonPositive(market_price, intrinsic) == market_price <= 0

\* The precondition of implied_volatility, line 148.
IVRejects(market_price, intrinsic) ==
    market_price <= intrinsic \/ market_price <= 0

\* return None of line 149: root-finding was not started.
IVRejected == [exc |-> "", ret |-> None, brentq |-> None]

\* return brentq(...) without the try: brentq's exception leaves the function.
IVReturnUncaught(b) == [exc |-> b.exc, ret |-> b.ret, brentq |-> Some(b)]

\* try: return brentq(...) except: return None, for brentq's outcome b.
IVReturn(b) ==
    IF b.exc # "" THEN [exc |-> "", ret |-> None, brentq |-> Some(b)]
    ELSE [exc |-> "", ret |-> b.ret, brentq |-> Some(b)]

(***************************************************************************)
(* Signal engine.  A signal keeps what the rules decide: the rule, the     *)
(* title's variant, the level, the number the text cites and, for rule 4,  *)
(* the commentary.                                                         *)
(***************************************************************************)
Signal(rule, title, level, value, comment) ==
    [rule |-> rule, title |-> title, level |-> level, value |-> value,
     comment |-> comment]

\* The thresholds of the IV/HV rule: 1.3 and 0.75.
ExpensiveRatio == 1300000
CheapRatio == 750000

\* The deviation threshold in percent, the days of the time-decay rule
\* and the probability bands 40, 60, 70.
DeviationPct == 10
DecayDays == 30
BandLow == 40
BandMid == 60
BandHigh == 70

\* if iv and hv
IvHvGate(iv, hv) == Truthy(iv) /\ Truthy(hv)

\* The branches with the boundaries 1.3 and 0.75 counted as expensive and
\* cheap.
IvHvBranchInclusive(iv_hv_ratio) ==
    IF iv_hv_ratio >= ExpensiveRatio THEN "expensive"
    ELSE IF iv_hv_ratio <= CheapRatio THEN "cheap"
    ELSE "fair"

\* The branch of lines 168 to 200 taken for iv_hv_ratio.
IvHvBranch(iv_hv_ratio) ==
    IF iv_hv_ratio > ExpensiveRatio THEN "expensive"
    ELSE IF iv_hv_ratio < CheapRatio THEN "cheap"
    ELSE "fair"

\* The outcomes with the colour set in the expensive branch only.
IvHvOutcomeRedOnly(branch) ==
    CASE branch = "expensive" ->
            [level |-> "warning", verdict |-> "EXPENSIVE", color |-> "red"]
      [] branch = "cheap" ->
            [level |-> "good", verdict |-> "CHEAP", color |-> "gray"]
      [] OTHER ->
            [level |-> "neutral", verdict |-> "NEUTRAL", color |-> "gray"]

\* What each branch sets: the signal's level, the verdict and its colour.
IvHvOutcome(branch) ==
    CASE branch = "expensive" ->
            [level |-> "warning", verdict |-> "EXPENSIVE", color |-> "red"]
      [] branch = "cheap" ->
            [level |-> "good", verdict |-> "CHEAP", color |-> "green"]
      [] OTHER ->
            [level |-> "neutral", verdict |-> "NEUTRAL", color |-> "gray"]

\* Lines 167 to 200, given iv_hv_ratio = iv / hv, its branch and outcome.
IvHvResult(iv_hv_ratio, branch, o) ==
    [signals |-> << Signal("iv_hv", branch, o.level, iv_hv_ratio, "") >>,
     verdict |-> o.verdict, verdict_color |-> o.color,
     iv_hv_ratio |-> Some(iv_hv_ratio)]

IvHvFired(iv_hv_ratio) ==
    IvHvResult(iv_hv_ratio, IvHvBranch(iv_hv_ratio),
               IvHvOutcome(IvHvBranch(iv_hv_ratio)))

\* Lines 160 to 200: the signals, verdict, colour and ratio of the IV/HV
\* rule.
IvHvRule(iv, hv) ==
    IF IvHvGate(iv, hv) THEN IvHvFired(Div(iv[1], hv[1]))
    ELSE [signals |-> << >>, verdict |-> "NEUTRAL", verdict_color |-> "gray",
          iv_hv_ratio |-> None]

\* if market_price and bs_price
DeviationGate(market_price, bs_price) == Truthy(market_price) /\ bs_price # 0

\* Lines 202 to 217: the signals of the market-vs-model rule.
DeviationSignals(diff_pct) ==
    IF Abs(diff_pct) > DeviationPct * Scale
    THEN << Signal("deviation",
                   IF diff_pct > 0 THEN "above" ELSE "below",
                   IF diff_pct > DeviationPct * Scale
                   THEN "warning" ELSE "good",
                   Abs(diff_pct), "") >>
    ELSE << >>

\* diff_pct = (market_price - bs_price) / bs_price * 100
DiffPct(market_price, bs_price) == Div(market_price - bs_price, bs_price) * 100

DeviationRule(market_price, bs_price) ==
    IF DeviationGate(market_price, bs_price)
    THEN DeviationSignals(DiffPct(market_price[1], bs_price))
    ELSE << >>

\* The time-decay rule with 30 days counted as short.
DecayRuleInclusive(T_days, theta) ==
    IF T_days <= DecayDays * Scale
    THEN << Signal("time_decay", "theta", "warning", Abs(theta), "") >>
    ELSE << >>

\* Lines 219 to 229: the signals of the time-decay rule.
DecayRule(T_days, theta) ==
    IF T_days < DecayDays * Scale
    THEN << Signal("time_decay", "theta", "warning", Abs(theta), "") >>
    ELSE << >>

\* if delta
DeltaGate(delta) == delta # 0

\* The commentary of lines 239 to 241 for prob_itm = abs(delta) * 100.
Commentary(prob_itm) ==
    IF BandLow * Scale < prob_itm /\ prob_itm < BandMid * Scale
    THEN "close_to_50_50"
    ELSE IF prob_itm > BandHigh * Scale THEN "high_probability"
    ELSE "long_shot"

\* The delta rule's signal without a level.
DeltaSignalsUnlevelled(prob_itm) ==
    << Signal("prob_itm", "chance_itm", "", prob_itm,
              Commentary(prob_itm)) >>

\* Lines 231 to 245: the signals of the delta rule.
DeltaSignals(prob_itm) ==
    << Signal("prob_itm", "chance_itm", "neutral", prob_itm,
              Commentary(prob_itm)) >>

DeltaRule(delta) ==
    IF DeltaGate(delta) THEN DeltaSignals(Abs(delta) * 100) ELSE << >>

\* generate_signal(bs_price, market_price, iv, hv, delta, theta, T_days,
\*                 option_type) returns (signals, verdict, verdict_color,
\*                 iv_hv_ratio).
\* A return whose verdict the deviation rule can raise to EXPENSIVE.
SignalReturnDeviationVerdict(rule1, rule2, rule3, rule4) ==
    [signals |-> rule1.signals \o rule2 \o rule3 \o rule4,
     verdict |-> IF Len(rule2) > 0 /\ rule2[1].title = "above"
                 THEN "EXPENSIVE" ELSE rule1.verdict,
     verdict_color |-> rule1.verdict_color,
     iv_hv_ratio |-> rule1.iv_hv_ratio]

\* A return that lists the delta rule's signal first.
SignalReturnDeltaFirst(rule1, rule2, rule3, rule4) ==
    [signals |-> rule4 \o rule1.signals \o rule2 \o rule3,
     verdict |-> rule1.verdict,
     verdict_color |-> rule1.verdict_color,
     iv_hv_ratio |-> rule1.iv_hv_ratio]

\* The return value of line 247, given what the four rules appended.
SignalReturn(rule1, rule2, rule3, rule4) ==
    [signals |-> rule1.signals \o rule2 \o rule3 \o rule4,
     verdict |-> rule1.verdict,
     verdict_color |-> rule1.verdict_color,
     iv_hv_ratio |-> rule1.iv_hv_ratio]

generate_signal(a) ==
    SignalReturn(IvHvRule(a.iv, a.hv),
                 DeviationRule(a.market_price, a.bs_price),
                 DecayRule(a.T_days, a.theta),
                 DeltaRule(a.delta))

(***************************************************************************)
(* Monte Carlo pricing.  A numpy array of draws is kept as a sequence of   *)
(* runs: Run(x, n) stands for n consecutive elements equal to x, so that   *)
(* an array of tens of thousands of elements is a few runs long.           *)
(***************************************************************************)
Run(x, n) == [x |-> x, n |-> n]

RECURSIVE Size(_)
\* len(a)
Size(a) == IF a = << >> THEN 0 ELSE a[1].n + Size(Tail(a))

RECURSIVE At(_, _)
\* a[i - 1], the i-th element of a, 1 <= i <= Size(a)
At(a, i) == IF i <= a[1].n THEN a[1].x ELSE At(Tail(a), i - a[1].n)

\* -Z
Negated(a) == [i \in DOMAIN a |-> Run(-a[i].x, a[i].n)]

\* np.concatenate([a, b])
Concatenate(a, b) == a \o b

\* x * n / size for x >= 0 and a run of n among size elements, exactly
\* rounded: the run's share of a mean.
Share(x, n, size) == (x \div size) * n + Round((x % size) * n, size)

RECURSIVE SumShares(_, _)
SumShares(a, size) ==
    IF a = << >> THEN 0
    ELSE Share(a[1].x, a[1].n, size) + SumShares(Tail(a), size)

\* np.mean(a) of non-negative elements: nan for an empty array.
Mean(a) == IF Size(a) = 0 THEN NaN ELSE SumShares(a, Size(a))

\* ((a - m) / 10) ** 2 elementwise: the squared deviations in units of 100,
\* which keeps the squares of deviations of some hundred dollars in range.
SquaredDeviations(a, m) ==
    [i \in DOMAIN a |->
        Run(Mul(Abs(a[i].x - m) \div 10, Abs(a[i].x - m) \div 10), a[i].n)]

\* np.std(a), given m = np.mean(a): sqrt(mean(abs(a - m) ** 2)).
StdAbout(a, m) ==
    IF m = NaN THEN NaN ELSE 10 * Sqrt(Mean(SquaredDeviations(a, m)))

Std(a) == StdAbout(a, Mean(a))

\* The terminal price with the draw scaled by sigma alone, not by
\* sigma * np.sqrt(T).
TerminalPriceUnscaled(S0, r, sigma, T, z) ==
    S0 * Exp(Mul(r - Mul(sigma, sigma) \div 2, T) + Mul(sigma, z))

\* S0 * np.exp((r - 0.5 * sigma ** 2) * T + sigma * np.sqrt(T) * z)
TerminalPrice(S0, r, sigma, T, z) ==
    S0 * Exp(Mul(r - Mul(sigma, sigma) \div 2, T)
             + Mul(Mul(sigma, Sqrt(T)), z))

\* Line 114: S_T over the array Z_full.
TerminalPrices(S0, r, sigma, T, Z_full) ==
    [i \in DOMAIN Z_full |->
        Run(TerminalPrice(S0, r, sigma, T, Z_full[i].x), Z_full[i].n)]

\* Line 115 for one element.
Payoff(S_T, K, option_type) ==
    IF option_type = "call" THEN Max(S_T - K * Scale, 0)
    ELSE Max(K * Scale - S_T, 0)

\* Line 115: payoff over the array S_T.
Payoffs(S_T, K, option_type) ==
    [i \in DOMAIN S_T |-> Run(Payoff(S_T[i].x, K, option_type), S_T[i].n)]

\* Line 112's argument: Z holds n_paths // 2 draws.
HalfCount(n_paths) == n_paths \div 2

\* The sample with the draws repeated instead of negated.
RepeatedSample(Z) == Concatenate(Z, Z)

\* Line 113: Z_full = np.concatenate([Z, -Z])
AntitheticSample(Z) == Concatenate(Z, Negated(Z))

\* Line 117: price = disc * np.mean(payoff), given the mean.
MCPrice(disc, mean) == IF mean = NaN THEN NaN ELSE Mul(disc, mean)

\* Line 118: se = disc * np.std(payoff) / np.sqrt(n_paths), given the
\* deviation; the quotient is taken as (x / 100) / (sqrt(n_paths) / 100),
\* which keeps the square root of a large count in range.
MCStdError(disc, std, n_paths) ==
    IF std = NaN THEN NaN
    ELSE Div(Mul(disc, std) \div 100, Sqrt(100 * n_paths))

\* Lines 116 to 119, given the payoff array.
MCEstimate(payoff, disc, n_paths, Z_full) ==
    [price |-> MCPrice(disc, Mean(payoff)),
     se |-> MCStdError(disc, Std(payoff), n_paths),
     Z_full |-> Z_full]

\* Lines 114 to 119, given Z_full.  np.sqrt(T) of a negative T is nan, and
\* the nan goes through every payoff to the mean and the deviation.
MCFromSample(S0, K, r, sigma, T, n_paths, option_type, Z_full) ==
    IF T < 0 THEN [price |-> NaN, se |-> NaN, Z_full |-> Z_full]
    ELSE MCEstimate(Payoffs(TerminalPrices(S0, r, sigma, T, Z_full), K,
                            option_type),
                    Exp(-Mul(r, T)), n_paths, Z_full)

\* monte_carlo_price(S0, K, r, sigma, T, n_paths, option_type), where Z is
\* what np.random.standard_normal(n_paths // 2) draws.  The returned pair
\* is kept with the sample it was averaged over.
monte_carlo_price(S0, K, r, sigma, T, n_paths, option_type, Z) ==
    MCFromSample(S0, K, r, sigma, T, n_paths, option_type,
                 AntitheticSample(Z))

(***************************************************************************)
(* Path simulation: simulate_gbm_paths, and the Asian and barrier pricers  *)
(* kept as commented-out code at lines 372 to 394.  A matrix is a sequence *)
(* of rows, one row per path.                                              *)
(***************************************************************************)
\* dt = T / steps
StepSize(T, steps) == Round(T, steps)

\* np.linspace(a, b, num): num points from a to b, the last one b itself.
Linspace(a, b, num) ==
    IF num = 1 THEN << a >>
    ELSE [j \in 1..num |->
            IF j = num THEN b ELSE a + Round((b - a) * (j - 1), num - 1)]

\* (r - 0.5 * sigma ** 2) * dt + sigma * np.sqrt(dt) * z
LogReturn(r, sigma, dt, z) ==
    Mul(r - Mul(sigma, sigma) \div 2, dt) + Mul(Mul(sigma, Sqrt(dt)), z)

\* log_returns, elementwise over the matrix Z.
LogReturns(r, sigma, dt, Z) ==
    [i \in DOMAIN Z |->
        [j \in DOMAIN Z[i] |-> LogReturn(r, sigma, dt, Z[i][j])]]

RECURSIVE SumTo(_, _)
\* row[1] + ... + row[j]
SumTo(row, j) == IF j = 0 THEN 0 ELSE row[j] + SumTo(row, j - 1)

\* np.cumsum(m, axis=1)
CumSum(m) == [i \in DOMAIN m |-> [j \in DOMAIN m[i] |-> SumTo(m[i], j)]]

\* The matrix left without the column of t = 0.
WithoutZeroColumn(m) == m

\* np.concatenate([np.zeros((n_paths, 1)), m], axis=1)
WithZeroColumn(m) == [i \in DOMAIN m |-> << 0 >> \o m[i]]

\* S0 * np.exp(m)
PricesOf(S0, m) ==
    [i \in DOMAIN m |-> [j \in DOMAIN m[i] |-> S0 * Exp(m[i][j])]]

\* Lines 105 to 107: log_paths.
LogPaths(log_returns) == WithZeroColumn(CumSum(log_returns))

\* simulate_gbm_paths(S0, r, sigma, T, steps, n_paths), where Z is what
\* np.random.standard_normal((n_paths, steps)) draws.  The returned pair
\* (t, paths) is kept with the draw.
simulate_gbm_paths(S0, r, sigma, T, steps, n_paths, Z) ==
    [t |-> Linspace(0, T, steps + 1),
     paths |-> PricesOf(S0, LogPaths(LogReturns(r, sigma,
                                                StepSize(T, steps), Z))),
     Z |-> Z]

\* np.mean(row) of a non-empty row.
RowMean(row) == Round(SumTo(row, Len(row)), Len(row))

\* Lines 376 and 390: paths = S0 * np.exp(np.cumsum(log_returns, axis=1))
ExoticPaths(S0, r, sigma, T, steps, Z) ==
    PricesOf(S0, CumSum(LogReturns(r, sigma, StepSize(T, steps), Z)))

\* Lines 377 to 382, given paths.
AsianFromPaths(paths, K, r, T, option_type) ==
    [paths |-> paths,
     avg_price |-> [i \in DOMAIN paths |-> RowMean(paths[i])],
     payoff |-> [i \in DOMAIN paths |->
                    Payoff(RowMean(paths[i]), K, option_type)],
     price |-> Mul(Exp(-Mul(r, T)),
                   RowMean([i \in DOMAIN paths |->
                               Payoff(RowMean(paths[i]), K, option_type)]))]

\* asian_option_mc(S0, K, r, sigma, T, steps, n_paths, option_type) for the
\* draw Z; the price is kept with the arrays it was computed from.
asian_option_mc(S0, K, r, sigma, T, steps, n_paths, option_type, Z) ==
    AsianFromPaths(ExoticPaths(S0, r, sigma, T, steps, Z), K, r, T,
                   option_type)

\* Line 391 for one path: np.any(paths <= B, axis=1)
KnockedOut(row, B) == \E j \in DOMAIN row : row[j] <= B * Scale

\* The payoff of a path with the floor at zero left out.
BarrierPayoffUnfloored(knocked_out, S_T, K) ==
    IF knocked_out THEN 0 ELSE S_T - K * Scale

\* Line 393 for one path: np.where(knocked_out, 0, np.maximum(S_T - K, 0))
BarrierPayoff(knocked_out, S_T, K) ==
    IF knocked_out THEN 0 ELSE Max(S_T - K * Scale, 0)

\* Lines 391 to 394, given paths.
BarrierFromPaths(paths, K, B, r, T) ==
    [paths |-> paths,
     knocked_out |-> [i \in DOMAIN paths |-> KnockedOut(paths[i], B)],
     S_T |-> [i \in DOMAIN paths |-> paths[i][Len(paths[i])]],
     payoff |-> [i \in DOMAIN paths |->
                    BarrierPayoff(KnockedOut(paths[i], B),
                                  paths[i][Len(paths[i])], K)],
     price |-> Mul(Exp(-Mul(r, T)),
                   RowMean([i \in DOMAIN paths |->
                               BarrierPayoff(KnockedOut(paths[i], B),
                                             paths[i][Len(paths[i])], K)]))]

\* barrier_option_mc(S0, K, B, r, sigma, T, steps, n_paths) for the draw Z.
barrier_option_mc(S0, K, B, r, sigma, T, steps, n_paths, Z) ==
    BarrierFromPaths(ExoticPaths(S0, r, sigma, T, steps, Z), K, B, r, T)

(***************************************************************************)
(* The convergence analysis, convergence_data: the estimate over the       *)
(* first n draws of one sample, for the sizes n of a logarithmic grid.     *)
(***************************************************************************)
\* The number of points of np.logspace(2, np.log10(max_paths), 40).
LogSpacePoints == 40

\* The first point of the grid, 10 ** 2.
LogSpaceFirst == 100

\* np.logspace(2, np.log10(max_paths), 40)[i], 0 <= i < 40:
\* 10 ** (2 + i * (log10(max_paths) - 2) / 39), taken as
\* 100 * exp(i * ln(max_paths / 100) / 39).
LogSpace(max_paths, i) ==
    LogSpaceFirst
        * Exp(Round(i * Ln((max_paths * Scale) \div LogSpaceFirst),
                    LogSpacePoints - 1))

\* x.astype(int) for x >= 0: the integer part.
AsInt(x) == x \div Scale

\* The integer part of the grid's last point, 10 ** np.log10(max_paths):
\* the double power is max_paths up to its last bit, above or below.
LastCounts(max_paths) == {max_paths - 1, max_paths}

RECURSIVE Ascending(_)
\* The elements of a finite set of integers, in increasing order.
Ascending(S) ==
    IF S = {} THEN << >>
    ELSE LET least == CHOOSE x \in S : \A y \in S : x <= y
         IN  << least >> \o Ascending(S \ {least})

\* np.unique(a): the distinct elements of a, sorted.
Unique(a) == Ascending({a[i] : i \in DOMAIN a})

\* Line 356: path_counts, where last is the integer part of the grid's
\* last point.
path_counts(max_paths, last) ==
    Unique([i \in 1..LogSpacePoints |->
                IF i = LogSpacePoints THEN last
                ELSE AsInt(LogSpace(max_paths, i - 1))])

\* The slice that ignores its bound.
WholeArray(a, n) == a

RECURSIVE Prefix(_, _)
\* a[:n], n >= 0: the first n elements of a, all of a when it has fewer.
Prefix(a, n) ==
    IF a = << >> \/ n <= 0 THEN << >>
    ELSE IF a[1].n >= n THEN << Run(a[1].x, n) >>
    ELSE << a[1] >> \o Prefix(Tail(a), n - a[1].n)

\* Lines 359 to 362: np.maximum(...) * np.exp(-r * T) over the array S_all.
DiscountedPayoffs(S_all, K, disc, option_type) ==
    [i \in DOMAIN S_all |->
        Run(Mul(Payoff(S_all[i].x, K, option_type), disc), S_all[i].n)]

\* Lines 365 to 367, one turn of the loop: the estimate over the first n
\* payoffs and its distance to the closed form.  The slice averaged is
\* kept with the estimate.
ConvergencePoint(payoffs, n, bs) ==
    [used |-> Prefix(payoffs, n),
     p |-> Mean(Prefix(payoffs, n)),
     error |-> Abs(Mean(Prefix(payoffs, n)) - bs)]

\* Lines 363 to 368: the loop over path_counts and the return.
ConvergenceSeries(counts, payoffs, bs, Z_all) ==
    [path_counts |-> counts,
     used |-> [i \in DOMAIN counts |->
                  ConvergencePoint(payoffs, counts[i], bs).used],
     mc_prices |-> [i \in DOMAIN counts |->
                  ConvergencePoint(payoffs, counts[i], bs).p],
     errors |-> [i \in DOMAIN counts |->
                  ConvergencePoint(payoffs, counts[i], bs).error],
     bs |-> bs,
     payoffs |-> payoffs,
     Z_all |-> Z_all]

\* convergence_data(S0, K, r, sigma, T, option_type, max_paths), where
\* Z_all is what np.random.standard_normal(max_paths) draws and last the
\* integer part of the grid's last point.
convergence_data(S0, K, r, sigma, T, option_type, max_paths, Z_all, last) ==
    ConvergenceSeries(
        path_counts(max_paths, last),
        DiscountedPayoffs(TerminalPrices(S0, r, sigma, T, Z_all), K,
                          Exp(-Mul(r, T)), option_type),
        black_scholes_price(S0, K, r, sigma, T, option_type).ret[1],
        Z_all)

(***************************************************************************)
(* get_historical_volatility (src/utils.py lines 34 to 47).  hist is the   *)
(* provider's answer: whether the fetch raises and, if not, the column of  *)
(* closing prices in whole dollars.                                        *)
(***************************************************************************)
\* The default of the parameter window, and the trading days of a year.
Window == 30
TradingDays == 252

\* x <= 0 and x > 0 as floats compare: both are false for nan.
NonPositive(x) == x # NaN /\ x <= 0

StrictlyPositive(x) == x # NaN /\ x > 0

\* hist.empty or len(hist) < window
TooShort(Close, window) == Len(Close) = 0 \/ Len(Close) < window

\* np.log(hist['Close'] / hist['Close'].shift(1)).dropna(): one return for
\* every row but the first.
CloseLogReturns(Close) ==
    [i \in 1..(Len(Close) - 1) |-> Ln(Div(Close[i + 1], Close[i]))]

\* The squared deviations from m of the entries of s.
SquaredDeviationsFrom(s, m) == [i \in DOMAIN s |-> Mul(s[i] - m, s[i] - m)]

\* pandas' std of a window: the sample standard deviation (ddof = 1).
SampleStd(s) ==
    LET m == Round(SumTo(s, Len(s)), Len(s))
        sq == SquaredDeviationsFrom(s, m)
    IN  Sqrt(Round(SumTo(sq, Len(sq)), Len(s) - 1))

\* log_returns.rolling(window).std() at entry i: nan until the window is
\* full.
RollingStd(returns, window, i) ==
    IF i < window THEN NaN
    ELSE SampleStd(SubSeq(returns, i - window + 1, i))

\* x * np.sqrt(252)
Annualised(x) == IF x = NaN THEN NaN ELSE Mul(x, Sqrt(TradingDays * Scale))

\* hv_series
HvSeries(returns, window) ==
    [i \in DOMAIN returns |-> Annualised(RollingStd(returns, window, i))]

IsNumber(x) == x # NaN

\* Lines 43 to 45: float(hv_series.iloc[-1]) and hv_series.dropna().
HvResult(hv_series) ==
    [current_hv |-> Some(hv_series[Len(hv_series)]),
     hv_history |-> Some(SelectSeq(hv_series, IsNumber))]

\* return None, None
NoVolatility == [current_hv |-> None, hv_history |-> None]

get_historical_volatility(hist, window) ==
    IF hist.raises THEN NoVolatility
    ELSE IF TooShort(hist.Close, window) THEN NoVolatility
    ELSE HvResult(HvSeries(CloseLogReturns(hist.Close), window))

(***************************************************************************)
(* get_options_chain (src/utils.py lines 50 to 69).  An expiry of the      *)
(* provider's list is [date, ok]: the calendar days from today's date to   *)
(* the date its string names, and whether the string parses as %Y-%m-%d.   *)
(* today is the time of day of datetime.today(): midnight sharp, or later. *)
(***************************************************************************)
\* The fewest days to an expiry that is listed, and the most expiries.
MinDays == 7
MaxExpiries == 6

\* days = (exp_date - today).days: exp_date is a midnight, so the whole
\* days are one fewer than the calendar days unless today is one too.
DaysTo(exp, today) == IF today = "midnight" THEN exp.date ELSE exp.date - 1

\* The test days > 7 in the place of days >= 7.
QualifiesAfter(days) == days > MinDays

\* if days >= 7
Qualifies(days) == days >= MinDays

RECURSIVE ValidExps(_, _)
\* Lines 59 to 64: valid_exps, the pairs (exp, days) that qualify.
ValidExps(expirations, today) ==
    IF expirations = << >> THEN << >>
    ELSE LET exp == Head(expirations)
             days == DaysTo(exp, today)
         IN  (IF Qualifies(days) THEN << << exp, days >> >> ELSE << >>)
                 \o ValidExps(Tail(expirations), today)

RECURSIVE InsertByDays(_, _)
\* e put into the sorted list v after every entry with days <= its own.
InsertByDays(v, e) ==
    IF v = << >> THEN << e >>
    ELSE IF e[2] < Head(v)[2] THEN << e >> \o v
    ELSE << Head(v) >> \o InsertByDays(Tail(v), e)

RECURSIVE SortedByDays(_, _)
\* sorted(valid_exps, key=lambda x: x[1]): stable, the first n entries of
\* valid_exps put in order.
SortedByDays(valid_exps, n) ==
    IF n = 0 THEN << >>
    ELSE InsertByDays(SortedByDays(valid_exps, n - 1), valid_exps[n])

\* v[:6]
Nearest(v) == SubSeq(v, 1, Min(Len(v), MaxExpiries))

\* [e[0] for e in v]
Expiries(v) == [i \in DOMAIN v |-> v[i][1]]

\* datetime.strptime(exp, "%Y-%m-%d") raises for none of the strings.
AllParse(expirations) == \A i \in DOMAIN expirations : expirations[i].ok

\* return None, None
NoExpiries == [tk |-> None, expirations |-> None]

\* Line 67.
ChainResult(valid_exps) ==
    [tk |-> Some("tk"),
     expirations |->
         Some(Expiries(Nearest(SortedByDays(valid_exps, Len(valid_exps)))))]

\* What get_options_chain returns: the try block raises when the fetch
\* does or a string does not parse, and the bare except returns
\* (None, None).
get_options_chain(fetch, today) ==
    IF fetch.raises THEN NoExpiries
    ELSE IF fetch.options = << >> THEN NoExpiries
    ELSE IF ~AllParse(fetch.options) THEN NoExpiries
    ELSE IF ValidExps(fetch.options, today) = << >> THEN NoExpiries
    ELSE ChainResult(ValidExps(fetch.options, today))

(***************************************************************************)
(* The app's pricing run, src/app.py lines 570 to 583.                     *)
(***************************************************************************)
\* The volatility the app falls back on when it has no other.
DefaultVol == 250000

\* market_iv and market_iv > 0
ChainVolUsable(market_iv) == Truthy(market_iv) /\ market_iv[1] > 0

\* Line 570: sigma_for_pricing.
SigmaForPricing(market_iv, hv_value) ==
    IF ChainVolUsable(market_iv) THEN market_iv[1]
    ELSE IF Truthy(hv_value) THEN hv_value[1]
    ELSE DefaultVol

\* Line 571: iv_to_use.
IvToUse(market_iv) == IF ChainVolUsable(market_iv) THEN market_iv ELSE None

\* The test that solves for the implied volatility whenever there is a
\* market price.
IVNeededWheneverPriced(market_price, iv_to_use) == Truthy(market_price)

\* Line 577: market_price and not iv_to_use.
IVNeeded(market_price, iv_to_use) ==
    Truthy(market_price) /\ ~Truthy(iv_to_use)

RECURSIVE BrentqRun(_, _)
\* brentq from the step b on, to its outcome.
BrentqRun(a, b) ==
    IF b.out # None THEN b.out[1]
    ELSE BrentqRun(a, BrentqStep(a, b.st[1], MaxIter))

\* implied_volatility(market_price, S0, K, r, T, option_type) as one call,
\* a the record of its arguments.
implied_volatility(a) ==
    IF IVRejects(a.market_price, Intrinsic(a.S0, a.K, a.option_type))
    THEN IVRejected
    ELSE IVReturn(BrentqRun(a, BrentqStart(a, BracketLo, BracketHi)))

\* The argument list the three pricers are called with, lines 573 to 575.
PricerArgs(in, sigma) ==
    [S0 |-> in.S0, K |-> in.K, r |-> in.r, sigma |-> sigma, T |-> in.T,
     option_type |-> in.option_type]

\* The argument list of line 578.
SolverArgs(in) ==
    [market_price |-> in.market_price[1], S0 |-> in.S0, K |-> in.K,
     r |-> in.r, T |-> in.T, option_type |-> in.option_type]

\* The argument list of lines 580 to 583.
SignalCall(in, run) ==
    [bs_price |-> run.bs_price[1], market_price |-> in.market_price,
     iv |-> run.iv_to_use, hv |-> in.hv_value,
     delta |-> run.greeks[1].delta, theta |-> run.greeks[1].theta,
     T_days |-> in.T_days * Scale, option_type |-> in.option_type]

\* The run before line 570: nothing assigned, nothing called.
AppEntry ==
    [pc |-> "570", sigma_for_pricing |-> None, iv_to_use |-> None,
     bs_call |-> None, bs_price |-> None, mc_call |-> None, mc |-> None,
     greeks_call |-> None, greeks |-> None, iv_call |-> None,
     iv_ret |-> None, sig_call |-> None, sig_ret |-> None]

(***************************************************************************)
(* The inputs the functions are applied to.                                *)
(***************************************************************************)
MaxSpotSteps == 2
MaxStrikeSteps == 1
MaxRateSteps == 1
MaxVolSteps == 2
MaxTimeSteps == 2
MaxPriceSteps == 4

OptionTypes == {"call", "put"}

Spots == {90 + 10 * i : i \in 0..MaxSpotSteps}

\* A strike of 0 is outside the documented domain but can be passed.
Strikes == {100 * i : i \in 0..MaxStrikeSteps}

Rates == {((5 * Scale) \div 100) * i : i \in 0..MaxRateSteps}

Vols == {((2 * Scale) \div 10) * i : i \in 0..MaxVolSteps}

Times == {(Scale \div 2) * i : i \in 0..MaxTimeSteps}

\* Observed prices; 150 is above every model price of these spots.
MarketPrices == {4 * Scale * i : i \in 0..MaxPriceSteps} \cup {150 * Scale}

Params == [S0 : Spots, K : Strikes, r : Rates, sigma : Vols, T : Times]

\* The times implied_volatility is asked about: those of the pricers, and
\* half a year after expiry.
IVTimes == Times \cup {-(Scale \div 2)}

IVArgs == [market_price : MarketPrices, S0 : Spots, K : Strikes, r : Rates,
           T : IVTimes, option_type : OptionTypes]

\* Percentages of the form n / 100.
Pct(n) == (n * Scale) \div 100

MaxHvSteps == 1
MaxDaySteps == 3

\* Implied vols: none, zero, and ratios to a 25% historical vol below 0.75,
\* at 0.75, between, at 1.3 and above (10%, 18.75%, 25%, 32.5%, 40%; the
\* quotients by 0.25 are exact in binary floating point too).
ImpliedVols ==
    {None} \cup {Some(n * (Scale \div 10000)) : n \in {0, 1000, 1875, 2500, 3250, 4000}}

HistoricalVols == {None} \cup {Some(Pct(25 * i)) : i \in 0..MaxHvSteps}

\* Model prices: zero (an expired out-of-the-money option) and 10.
ModelPrices == {0, 10 * Scale}

\* Market prices 11% and 10% below 10, at 10, 10% and 11% above, and none.
SignalMarketPrices ==
    {None} \cup {Some(Pct(n)) : n \in {0, 890, 900, 1000, 1100, 1110}}

\* Deltas of calls and puts; 0 is what compute_greeks returns when T <= 0.
Deltas == {Pct(n) : n \in {0, 35, 40, 50, 60, 65, 70, 75, -50, -65}}

Thetas == {0, -17573}

\* Days to expiry from 29 in half days.
Days == {29 * Scale + (Scale \div 2) * i : i \in 0..MaxDaySteps}

SignalArgs == [bs_price : ModelPrices, market_price : SignalMarketPrices,
               iv : ImpliedVols, hv : HistoricalVols, delta : Deltas,
               theta : Thetas, T_days : Days, option_type : OptionTypes]

\* Path counts: the smallest ones, odd and even, and the 50,000 from which
\* the estimate is compared to the closed form.
PathCounts == {1, 2, 3, 4, 5, 50000}

\* The values a standard normal draw takes: one deviation down, the mean,
\* one deviation up.
Normals == {-Scale, 0, Scale}

\* Where an array of h draws changes value: after its first element and
\* at its middle.
Splits(h) == {1, h \div 2} \cap 1..(h - 1)

\* What np.random.standard_normal(h) may return: the arrays of h draws
\* that hold one value, or one value up to a split and another after it.
Draws(h) ==
    IF h = 0 THEN {<< >>}
    ELSE {<< Run(z, h) >> : z \in Normals}
         \cup {<< Run(zs[1], k), Run(zs[2], h - k) >> :
                   zs \in Normals \X Normals, k \in Splits(h)}

\* A spot of 110 against a strike of 100, with and without a rate,
\* volatility and time to expiry.
MCArgs == [S0 : {110}, K : {100}, r : {0, Pct(5)}, sigma : {0, Pct(20)},
           T : {0, Scale}, n_paths : PathCounts, option_type : OptionTypes]

MaxSteps == 2
MaxPaths == 2

\* The values a draw of a path's step takes: one deviation down or up.
StepNormals == {-Scale, Scale}

\* What np.random.standard_normal((n_paths, steps)) may return.
StepDraws(n_paths, steps) == [1..n_paths -> [1..steps -> StepNormals]]

\* A spot of 100 against strikes of 95 and 105, a barrier below the spot
\* and one at it, a year at 20% volatility, one step or more, one path or
\* more.
PathArgs == [S0 : {100}, K : {95, 105}, B : {90, 100}, r : {0, Pct(5)},
             sigma : {Pct(20)}, T : {Scale},
             steps : 1..MaxSteps, n_paths : 1..MaxPaths,
             option_type : OptionTypes]

\* The largest sample sizes asked of convergence_data: below the grid's
\* first point, at it and above it.
ConvMaxPaths == {10, 50, 100, 150}

\* A spot of 110 against a strike of 100 over a year at 20% volatility.
ConvArgs == [S0 : {110}, K : {100}, r : {0, Pct(5)}, sigma : {Pct(20)},
             T : {Scale}, option_type : OptionTypes,
             max_paths : ConvMaxPaths]

\* The volatilities prices are generated from for the round trip: the
\* ends of the root finder's bracket, and 0.1%, 10%, 30% and 100% inside
\* it.
RoundTripVols ==
    {BracketLo, Scale \div 1000, Pct(10), Pct(30), Scale, BracketHi}

\* The arguments of implied_volatility whose market price is the value of
\* black_scholes_price at one of these volatilities: spots within 10% of a
\* strike of 100, half a year and a year before expiry, where a change of
\* 1e-4 in the volatility moves the fixed-point price.
RoundTripArgs ==
    {[market_price |-> black_scholes_price(S0, 100, r, sigma, T, ot).ret[1],
      S0 |-> S0, K |-> 100, r |-> r, T |-> T, option_type |-> ot] :
        S0 \in {90, 100, 110}, r \in {0, Pct(5)}, T \in {Scale \div 2, Scale},
        sigma \in RoundTripVols, ot \in OptionTypes}

\* The two pricing functions.
PricingFunctions == {"black_scholes_price", "monte_carlo_price"}

\* The sides a caller may pass: the two the functions know and one they
\* do not.
Sides == OptionTypes \cup {"straddle"}

\* Argument lists at and beyond the boundary: a spot that is negative,
\* zero or positive, a strike that is zero or positive, a rate, a
\* volatility and a time that are negative or positive, every side.
BoundaryArgs == [S0 : {-100, 0, 100}, K : {0, 90}, r : {-Pct(5), Pct(5)},
                 sigma : {-Pct(20), Pct(20)}, T : {-Scale, Scale},
                 option_type : Sides]

\* The path count of the Monte Carlo calls at the boundary.
BoundaryPaths == 4

\* The inputs of the app's pricing run: a spot at and above a strike of
\* 100, 91 days to expiry, the chain's last price (none, zero, below and
\* above the model's) and implied vol (none, zero, 30%), the historical
\* vol (none, zero, 25%), 5000 simulated paths.
AppArgs ==
    [S0 : {100, 110}, K : {100}, r : {Pct(5)}, T : {Round(91 * Scale, 365)},
     T_days : {91}, option_type : OptionTypes, n_sim : {5000},
     market_price : {None, Some(0), Some(8 * Scale), Some(14 * Scale)},
     market_iv : {None, Some(0), Some(Pct(30))},
     hv_value : {None, Some(0), Some(Pct(25))}]

\* The closing prices of a history of the given number of rows: flat at
\* 100, swinging between 100 and 110, or flat at 100 until it closes at 120
\* on the last day.
History(rows, shape) ==
    [i \in 1..rows |->
        IF shape = "flat" THEN 100
        ELSE IF shape = "swing" THEN (IF i % 2 = 0 THEN 110 ELSE 100)
        ELSE IF i = rows THEN 120 ELSE 100]

HistoryShapes == {"flat", "swing", "jump"}

\* Rows of the six-month history: none, one fewer than the window, the
\* window, one and two more, and a longer one.
HistoryRows == {0, Window - 1, Window, Window + 1, Window + 2, Window + 15}

\* What the app's fetch and the chain give the choice of line 570: the
\* history, and the chain's implied vol (none, nan, zero, 30%).
VolArgs ==
    [raises : BOOLEAN, rows : HistoryRows, shape : HistoryShapes,
     market_iv : {None, Some(NaN), Some(0), Some(Pct(30))}]

\* Calendar days to the expiry dates a provider lists: within the week,
\* a week to the day, a week and a day, and weekly ones after that.
ExpiryDates == {3, 7, 8, 14, 21, 28, 35, 42, 49}

RECURSIVE Reversed(_)
Reversed(s) == IF s = << >> THEN << >> ELSE Reversed(Tail(s)) \o << Head(s) >>

\* The list tk.options of a fetch: the listed dates in increasing or in
\* decreasing order, followed by a string that is no date when the list
\* is malformed.
Options(a) ==
    LET dates == Ascending(a.listed)
        order == IF a.descending THEN Reversed(dates) ELSE dates
    IN  [i \in DOMAIN order |-> [date |-> order[i], ok |-> TRUE]]
            \o (IF a.malformed THEN << [date |-> 0, ok |-> FALSE] >>
                ELSE << >>)

\* A call of get_options_chain: whether the fetch raises, what it lists
\* and the time of day.
ChainArgs ==
    [raises : BOOLEAN, listed : SUBSET ExpiryDates, descending : BOOLEAN,
     malformed : BOOLEAN, today : {"midnight", "later"}]

VARIABLES
    params,     \* None, or the MarketParameters the pricers are applied to
    price,      \* per side: None, or the outcome of black_scholes_price
    greeks,     \* per side: None, or the outcome of compute_greeks
    iv_args,    \* None, or the arguments of implied_volatility
    iv_out,     \* None, or the outcome of implied_volatility(iv_args)
    brent,      \* None, or the bracket of the brentq call in progress
    sig_args,   \* None, or the arguments of generate_signal
    sig_out,    \* None, or what generate_signal(sig_args) returns
    mc_args,    \* None, or the arguments of monte_carlo_price
    mc_out,     \* None, or what monte_carlo_price(mc_args) returns
    path_args,  \* None, or the arguments of the path simulations
    gbm_out,    \* None, or what simulate_gbm_paths(path_args) returns
    asian_out,  \* None, or what asian_option_mc(path_args) computes
    barrier_out, \* None, or what barrier_option_mc(path_args) computes
    conv_args,  \* None, or the arguments of convergence_data
    conv_out,   \* None, or what convergence_data(conv_args) returns
    bnd_args,   \* None, or an argument list that may be invalid
    bnd_out,    \* per pricing function: None, or its outcome on bnd_args
    app_args,   \* None, or the inputs of the app's pricing run
    app,        \* None, or the pricing run: its position and its locals
    vol_args,   \* None, or the price history and the chain's implied vol
    vol_out,    \* None, or the volatilities derived from vol_args
    chain_args, \* None, or what the provider holds for get_options_chain
    chain_out   \* None, or what get_options_chain returns

vars == << params, price, greeks, iv_args, iv_out, brent, sig_args, sig_out,
          mc_args, mc_out, path_args, gbm_out, asian_out, barrier_out,
          conv_args, conv_out, bnd_args, bnd_out, app_args, app,
          vol_args, vol_out, chain_args, chain_out >>

\* The variables of the path simulations.
pathVars == << path_args, gbm_out, asian_out, barrier_out >>

\* The variables of the simulations.
simVars == << mc_args, mc_out, path_args, gbm_out, asian_out, barrier_out >>

\* No path was simulated.
NoPaths ==
    /\ gbm_out = None
    /\ asian_out = None
    /\ barrier_out = None

\* No simulation is asked for.
NoSimulation ==
    /\ mc_args = None
    /\ path_args = None

NoCalls ==
    /\ price = [ot \in OptionTypes |-> None]
    /\ greeks = [ot \in OptionTypes |-> None]
    /\ iv_out = None
    /\ brent = None
    /\ sig_out = None
    /\ mc_out = None
    /\ NoPaths


\* The variables of the functions around the pricers.
outerVars == << conv_args, conv_out, bnd_args, bnd_out, app_args, app,
               vol_args, vol_out, chain_args, chain_out >>

convVars == << conv_args, conv_out >>

bndVars == << bnd_args, bnd_out >>

appVars == << app_args, app >>

volVars == << vol_args, vol_out >>

chainVars == << chain_args, chain_out >>

NoConv == conv_args = None /\ conv_out = None

NoBoundary == bnd_args = None /\ bnd_out = None

NoApp == app_args = None /\ app = None

NoVol == vol_args = None /\ vol_out = None

NoChain == chain_args = None /\ chain_out = None

\* None of the functions around the pricers is asked for.
NoOuter ==
    /\ NoConv
    /\ NoBoundary
    /\ NoApp
    /\ NoVol
    /\ NoChain

(***************************************************************************)
(* Spec: black_scholes_price and compute_greeks applied to one parameter   *)
(* set, each side at most once.                                            *)
(***************************************************************************)
Init ==
    /\ params \in {Some(p) : p \in Params}
    /\ iv_args = None
    /\ sig_args = None
    /\ NoCalls
    /\ NoSimulation
    /\ NoOuter

BlackScholesPrice(ot) ==
    /\ params # None
    /\ price[ot] = None
    /\ LET p == params[1]
       IN  price' = [price EXCEPT ![ot] =
                Some(black_scholes_price(p.S0, p.K, p.r, p.sigma, p.T, ot))]
    /\ UNCHANGED << params, greeks, iv_args, iv_out, brent, sig_args, sig_out >>
    /\ UNCHANGED simVars
    /\ UNCHANGED outerVars

ComputeGreeks(ot) ==
    /\ params # None
    /\ greeks[ot] = None
    /\ LET p == params[1]
       IN  greeks' = [greeks EXCEPT ![ot] =
                Some(compute_greeks(p.S0, p.K, p.r, p.sigma, p.T, ot))]
    /\ UNCHANGED << params, price, iv_args, iv_out, brent, sig_args, sig_out >>
    /\ UNCHANGED simVars
    /\ UNCHANGED outerVars

Next ==
    \/ \E ot \in OptionTypes : BlackScholesPrice(ot)
    \/ \E ot \in OptionTypes : ComputeGreeks(ot)

Spec == Init /\ [][Next]_vars

(***************************************************************************)
(* SpecIV: implied_volatility applied to one argument tuple.               *)
(***************************************************************************)
InitIV ==
    /\ params = None
    /\ iv_args \in {Some(a) : a \in IVArgs}
    /\ sig_args = None
    /\ NoCalls
    /\ NoSimulation
    /\ NoOuter

\* A step b of the root finder taken inside implied_volatility: its return
\* when the root finder ended, the bracket kept otherwise.
IVProceeds(b) ==
    IF b.out # None
    THEN iv_out' = Some(IVReturn(b.out[1])) /\ brent' = None
    ELSE iv_out' = None /\ brent' = b.st

\* implied_volatility up to brentq's first iteration: the precondition and
\* the entry of brentq.
ImpliedVolatility ==
    /\ iv_args # None
    /\ iv_out = None
    /\ brent = None
    /\ IF IVRejects(iv_args[1].market_price,
                    Intrinsic(iv_args[1].S0, iv_args[1].K,
                              iv_args[1].option_type))
       THEN iv_out' = Some(IVRejected) /\ brent' = None
       ELSE IVProceeds(BrentqStart(iv_args[1], BracketLo, BracketHi))
    /\ UNCHANGED << params, price, greeks, iv_args, sig_args, sig_out >>
    /\ UNCHANGED simVars
    /\ UNCHANGED outerVars

\* One iteration of brentq inside implied_volatility, and its return when
\* the iteration ends.
BrentqIterate ==
    /\ brent # None
    /\ IVProceeds(BrentqStep(iv_args[1], brent[1], MaxIter))
    /\ UNCHANGED << params, price, greeks, iv_args, sig_args, sig_out >>
    /\ UNCHANGED simVars
    /\ UNCHANGED outerVars

NextIV == ImpliedVolatility \/ BrentqIterate

SpecIV == InitIV /\ [][NextIV]_vars

(***************************************************************************)
(* SpecRoundTrip: implied_volatility applied to a price that               *)
(* black_scholes_price produced.                                           *)
(***************************************************************************)
InitRoundTrip ==
    /\ params = None
    /\ iv_args \in {Some(a) : a \in RoundTripArgs}
    /\ sig_args = None
    /\ NoCalls
    /\ NoSimulation
    /\ NoOuter

SpecRoundTrip == InitRoundTrip /\ [][NextIV]_vars

(***************************************************************************)
(* SpecSignal: generate_signal applied to one argument tuple.              *)
(***************************************************************************)
InitSignal ==
    /\ params = None
    /\ iv_args = None
    /\ sig_args \in {Some(a) : a \in SignalArgs}
    /\ NoCalls
    /\ NoSimulation
    /\ NoOuter

GenerateSignal ==
    /\ sig_args # None
    /\ sig_out = None
    /\ sig_out' = Some(generate_signal(sig_args[1]))
    /\ UNCHANGED << params, price, greeks, iv_args, iv_out, brent, sig_args >>
    /\ UNCHANGED simVars
    /\ UNCHANGED outerVars

NextSignal == GenerateSignal

SpecSignal == InitSignal /\ [][NextSignal]_vars
(***************************************************************************)
(* SpecMC: monte_carlo_price applied once to one argument list; the draw   *)
(* of the normals is the function's own.                                   *)
(***************************************************************************)
\* The variables of the closed-form pricers, the solver and the signals.
pricingVars ==
    << params, price, greeks, iv_args, iv_out, brent, sig_args, sig_out >>

NoPricing ==
    /\ params = None
    /\ iv_args = None
    /\ sig_args = None
    /\ NoCalls

InitMC ==
    /\ NoPricing
    /\ mc_args \in {Some(a) : a \in MCArgs}
    /\ path_args = None
    /\ NoOuter

\* monte_carlo_price returns for the draw Z.
MonteCarloReturns(a, Z) ==
    mc_out' = Some(monte_carlo_price(a.S0, a.K, a.r, a.sigma, a.T,
                                     a.n_paths, a.option_type, Z))

MonteCarloPrice ==
    /\ mc_args # None
    /\ mc_out = None
    /\ \E Z \in Draws(HalfCount(mc_args[1].n_paths)) :
          MonteCarloReturns(mc_args[1], Z)
    /\ UNCHANGED pricingVars
    /\ UNCHANGED mc_args
    /\ UNCHANGED pathVars
    /\ UNCHANGED outerVars

NextMC == MonteCarloPrice

SpecMC == InitMC /\ [][NextMC]_vars

(***************************************************************************)
(* SpecPaths: one of simulate_gbm_paths, asian_option_mc and               *)
(* barrier_option_mc applied once to one argument list, each with its own  *)
(* draw.                                                                   *)
(***************************************************************************)
InitPaths ==
    /\ NoPricing
    /\ mc_args = None
    /\ path_args \in {Some(a) : a \in PathArgs}
    /\ NoOuter

SimulateGbmReturns(a, Z) ==
    gbm_out' = Some(simulate_gbm_paths(a.S0, a.r, a.sigma, a.T, a.steps,
                                       a.n_paths, Z))

SimulateGbmPaths ==
    /\ path_args # None
    /\ NoPaths
    /\ \E Z \in StepDraws(path_args[1].n_paths, path_args[1].steps) :
          SimulateGbmReturns(path_args[1], Z)
    /\ UNCHANGED pricingVars
    /\ UNCHANGED << mc_args, mc_out, path_args, asian_out, barrier_out >>
    /\ UNCHANGED outerVars

AsianReturns(a, Z) ==
    asian_out' = Some(asian_option_mc(a.S0, a.K, a.r, a.sigma, a.T, a.steps,
                                      a.n_paths, a.option_type, Z))

AsianOptionMc ==
    /\ path_args # None
    /\ NoPaths
    /\ \E Z \in StepDraws(path_args[1].n_paths, path_args[1].steps) :
          AsianReturns(path_args[1], Z)
    /\ UNCHANGED pricingVars
    /\ UNCHANGED << mc_args, mc_out, path_args, gbm_out, barrier_out >>
    /\ UNCHANGED outerVars

BarrierReturns(a, Z) ==
    barrier_out' = Some(barrier_option_mc(a.S0, a.K, a.B, a.r, a.sigma, a.T,
                                          a.steps, a.n_paths, Z))

BarrierOptionMc ==
    /\ path_args # None
    /\ NoPaths
    /\ \E Z \in StepDraws(path_args[1].n_paths, path_args[1].steps) :
          BarrierReturns(path_args[1], Z)
    /\ UNCHANGED pricingVars
    /\ UNCHANGED << mc_args, mc_out, path_args, gbm_out, asian_out >>
    /\ UNCHANGED outerVars

NextPaths == SimulateGbmPaths \/ AsianOptionMc \/ BarrierOptionMc

SpecPaths == InitPaths /\ [][NextPaths]_vars

(***************************************************************************)
(* SpecConv: convergence_data applied once to one argument list; the draw  *)
(* of the normals is the function's own.                                   *)
(***************************************************************************)
InitConv ==
    /\ NoPricing
    /\ NoSimulation
    /\ conv_args \in {Some(a) : a \in ConvArgs}
    /\ conv_out = None
    /\ NoBoundary
    /\ NoApp
    /\ NoVol
    /\ NoChain

\* convergence_data returns for the draw Z_all.
ConvergenceReturns(a, Z_all, last) ==
    conv_out' = Some(convergence_data(a.S0, a.K, a.r, a.sigma, a.T,
                                      a.option_type, a.max_paths, Z_all,
                                      last))

ConvergenceData ==
    /\ conv_args # None
    /\ conv_out = None
    /\ \E Z_all \in Draws(conv_args[1].max_paths),
          last \in LastCounts(conv_args[1].max_paths) :
          ConvergenceReturns(conv_args[1], Z_all, last)
    /\ UNCHANGED pricingVars
    /\ UNCHANGED simVars
    /\ UNCHANGED conv_args
    /\ UNCHANGED << bndVars, appVars, volVars, chainVars >>

NextConv == ConvergenceData

SpecConv == InitConv /\ [][NextConv]_vars

(***************************************************************************)
(* SpecBoundary: black_scholes_price and monte_carlo_price applied to one  *)
(* argument list, valid or not, each at most once.                         *)
(***************************************************************************)
InitBoundary ==
    /\ NoPricing
    /\ NoSimulation
    /\ NoConv
    /\ bnd_args \in {Some(a) : a \in BoundaryArgs}
    /\ bnd_out = [f \in PricingFunctions |-> None]
    /\ NoApp
    /\ NoVol
    /\ NoChain

\* black_scholes_price applied to the argument list.
BoundaryBlackScholes ==
    /\ bnd_args # None
    /\ bnd_out # None
    /\ bnd_out["black_scholes_price"] = None
    /\ LET a == bnd_args[1]
       IN  bnd_out' = [bnd_out EXCEPT !["black_scholes_price"] =
               Some(black_scholes_price(a.S0, a.K, a.r, a.sigma, a.T,
                                        a.option_type))]
    /\ UNCHANGED pricingVars
    /\ UNCHANGED simVars
    /\ UNCHANGED bnd_args
    /\ UNCHANGED << convVars, appVars, volVars, chainVars >>

\* monte_carlo_price returns its pair for the draw Z: it raises nothing.
BoundaryMonteCarloReturns(a, Z) ==
    bnd_out' = [bnd_out EXCEPT !["monte_carlo_price"] =
        Some(Returned(Some(monte_carlo_price(a.S0, a.K, a.r, a.sigma, a.T,
                                             BoundaryPaths, a.option_type,
                                             Z))))]

\* monte_carlo_price applied to the argument list.
BoundaryMonteCarlo ==
    /\ bnd_args # None
    /\ bnd_out # None
    /\ bnd_out["monte_carlo_price"] = None
    /\ \E Z \in Draws(HalfCount(BoundaryPaths)) :
          BoundaryMonteCarloReturns(bnd_args[1], Z)
    /\ UNCHANGED pricingVars
    /\ UNCHANGED simVars
    /\ UNCHANGED bnd_args
    /\ UNCHANGED << convVars, appVars, volVars, chainVars >>

NextBoundary == BoundaryBlackScholes \/ BoundaryMonteCarlo

SpecBoundary == InitBoundary /\ [][NextBoundary]_vars

(***************************************************************************)
(* SpecApp: the app's pricing run, one statement at a time.                *)
(***************************************************************************)
InitApp ==
    /\ NoPricing
    /\ NoSimulation
    /\ NoConv
    /\ NoBoundary
    /\ app_args \in {Some(a) : a \in AppArgs}
    /\ app = Some(AppEntry)
    /\ NoVol
    /\ NoChain

\* The statement at pc takes the run to the record next.
AppStep(pc, next) ==
    /\ app_args # None
    /\ app # None
    /\ app[1].pc = pc
    /\ app' = Some(next)
    /\ UNCHANGED pricingVars
    /\ UNCHANGED simVars
    /\ UNCHANGED app_args
    /\ UNCHANGED << convVars, bndVars, volVars, chainVars >>

\* Lines 570 and 571.
AppChooseVolatility ==
    /\ app # None
    /\ AppStep("570",
               [app[1] EXCEPT
                   !.pc = "573",
                   !.sigma_for_pricing =
                       Some(SigmaForPricing(app_args[1].market_iv,
                                            app_args[1].hv_value)),
                   !.iv_to_use = IvToUse(app_args[1].market_iv)])

\* The run after a pricer's outcome o: an exception ends it.
AppAfter(o, pc) == IF o.exc # "" THEN "raised" ELSE pc

\* Line 573, given the argument list and the pricer's outcome.
AppPriced(a, o) ==
    AppStep("573",
            [app[1] EXCEPT !.pc = AppAfter(o, "574"),
                           !.bs_call = Some(a),
                           !.bs_price = o.ret])

AppBlackScholesWith(a) ==
    AppPriced(a, black_scholes_price(a.S0, a.K, a.r, a.sigma, a.T,
                                     a.option_type))

AppBlackScholes ==
    /\ app # None
    /\ app[1].sigma_for_pricing # None
    /\ AppBlackScholesWith(PricerArgs(app_args[1],
                                      app[1].sigma_for_pricing[1]))

\* Line 574, given the argument list and the draw.
AppMonteCarloWith(a, n_sim, Z) ==
    AppStep("574",
            [app[1] EXCEPT
                !.pc = "575",
                !.mc_call = Some([args |-> a, n_paths |-> n_sim]),
                !.mc = Some(monte_carlo_price(a.S0, a.K, a.r, a.sigma, a.T,
                                              n_sim, a.option_type, Z))])

AppMonteCarlo ==
    /\ app # None
    /\ app_args # None
    /\ app[1].sigma_for_pricing # None
    /\ \E Z \in Draws(HalfCount(app_args[1].n_sim)) :
          AppMonteCarloWith(PricerArgs(app_args[1],
                                       app[1].sigma_for_pricing[1]),
                            app_args[1].n_sim, Z)

\* Line 575, given the argument list and the outcome of compute_greeks.
AppHedged(a, o) ==
    AppStep("575",
            [app[1] EXCEPT !.pc = AppAfter(o, "577"),
                           !.greeks_call = Some(a),
                           !.greeks = o.ret])

AppGreeksWith(a) ==
    AppHedged(a, compute_greeks(a.S0, a.K, a.r, a.sigma, a.T,
                                a.option_type))

AppGreeks ==
    /\ app # None
    /\ app[1].sigma_for_pricing # None
    /\ AppGreeksWith(PricerArgs(app_args[1], app[1].sigma_for_pricing[1]))

\* Line 578, given the argument list and what implied_volatility returns.
AppSolved(a, o) ==
    AppStep("577",
            [app[1] EXCEPT !.pc = "580",
                           !.iv_call = Some(a),
                           !.iv_ret = Some(o),
                           !.iv_to_use = o.ret])

AppSolveWith(a) == AppSolved(a, implied_volatility(a))

\* Lines 577 and 578.
AppImpliedVolatility ==
    /\ app # None
    /\ app_args # None
    /\ IF IVNeeded(app_args[1].market_price, app[1].iv_to_use)
       THEN AppSolveWith(SolverArgs(app_args[1]))
       ELSE AppStep("577", [app[1] EXCEPT !.pc = "580"])

\* Lines 580 to 583, given the argument list.
AppSignalWith(a) ==
    AppStep("580",
            [app[1] EXCEPT
                !.pc = "done",
                !.sig_call = Some(a),
                !.sig_ret = Some(generate_signal(a))])

AppGenerateSignal ==
    /\ app # None
    /\ app[1].pc = "580"
    /\ AppSignalWith(SignalCall(app_args[1], app[1]))

NextApp ==
    \/ AppChooseVolatility
    \/ AppBlackScholes
    \/ AppMonteCarlo
    \/ AppGreeks
    \/ AppImpliedVolatility
    \/ AppGenerateSignal

SpecApp == InitApp /\ [][NextApp]_vars

(***************************************************************************)
(* SpecVol: the app fetches the historical volatility (src/app.py line     *)
(* 437), chooses the volatility it prices with (line 570) and calls the    *)
(* pricers with it (lines 573 to 575).                                     *)
(***************************************************************************)
InitVol ==
    /\ NoPricing
    /\ NoSimulation
    /\ NoConv
    /\ NoBoundary
    /\ NoApp
    /\ vol_args \in {Some(a) : a \in VolArgs}
    /\ vol_out = None
    /\ NoChain

VolStep(next) ==
    /\ vol_out' = Some(next)
    /\ UNCHANGED << vol_args, chain_args, chain_out >>
    /\ UNCHANGED pricingVars
    /\ UNCHANGED simVars
    /\ UNCHANGED << convVars, bndVars, appVars >>

\* Line 437: hv_value, hv_history = get_historical_volatility(ticker).
VolFetched(hv) ==
    VolStep([pc |-> "570", hv_value |-> hv.current_hv,
             hv_history |-> hv.hv_history, sigma_for_pricing |-> None,
             degenerate |-> None])

VolFetch ==
    /\ vol_args # None
    /\ vol_out = None
    /\ VolFetched(get_historical_volatility(
           [raises |-> vol_args[1].raises,
            Close |-> History(vol_args[1].rows, vol_args[1].shape)],
           Window))

\* Line 570.
VolChoose ==
    /\ vol_out # None
    /\ vol_out[1].pc = "570"
    /\ VolStep([vol_out[1] EXCEPT
                   !.pc = "573",
                   !.sigma_for_pricing =
                       Some(SigmaForPricing(vol_args[1].market_iv,
                                            vol_out[1].hv_value))])

\* Lines 573 and 575: the test sigma <= 0 of black_scholes_price (line 89)
\* and compute_greeks (line 124) on the chosen volatility.
VolPrice ==
    /\ vol_out # None
    /\ vol_out[1].pc = "573"
    /\ VolStep([vol_out[1] EXCEPT
                   !.pc = "done",
                   !.degenerate =
                       Some(NonPositive(vol_out[1].sigma_for_pricing[1]))])

NextVol ==
    \/ VolFetch
    \/ VolChoose
    \/ VolPrice

SpecVol == InitVol /\ [][NextVol]_vars

(***************************************************************************)
(* SpecChain: get_options_chain is called once.                            *)
(***************************************************************************)
InitChain ==
    /\ NoPricing
    /\ NoSimulation
    /\ NoConv
    /\ NoBoundary
    /\ NoApp
    /\ NoVol
    /\ chain_args \in {Some(a) : a \in ChainArgs}
    /\ chain_out = None

\* The provider's answer to the fetch of lines 53 and 54.
Fetch(a) == [raises |-> a.raises, options |-> Options(a)]

GetOptionsChain ==
    /\ chain_args # None
    /\ chain_out = None
    /\ chain_out' =
           Some(get_options_chain(Fetch(chain_args[1]), chain_args[1].today))
    /\ UNCHANGED << chain_args, vol_args, vol_out >>
    /\ UNCHANGED pricingVars
    /\ UNCHANGED simVars
    /\ UNCHANGED << convVars, bndVars, appVars >>

NextChain == GetOptionsChain

SpecChain == InitChain /\ [][NextChain]_vars

(***************************************************************************)
(* Properties of black_scholes_price and compute_greeks, under Spec.       *)
(***************************************************************************)
\* The rounding the fixed-point arithmetic allows in a price, in units of
\* 1 / Scale.
Tolerance == 10

\* Both sides were priced for the parameters, which are in the documented
\* domain (S > 0, K > 0).
BothPriced ==
    /\ price["call"] # None
    /\ price["put"] # None
    /\ params[1].K > 0

\* call price - put price - (S - K exp(-r T)), once both sides are priced.
ParityGap ==
    price["call"][1].ret[1] - price["put"][1].ret[1]
    - (params[1].S0 * Scale
       - DiscountedStrike(params[1].K, params[1].r, params[1].T))

\* C1: put-call parity.  For every parameter set with S > 0, K > 0,
\* sigma >= 0 and T >= 0, the call price minus the put price equals
\* S - K exp(-r T), on the degenerate branch (T <= 0 or sigma <= 0) too.
C1_PutCallParity ==
    BothPriced =>
        /\ price["call"][1].exc = ""
        /\ price["put"][1].exc = ""
        /\ Abs(ParityGap) <= Tolerance

\* C1, the part the code keeps: parity holds wherever the closed form is
\* evaluated, and on the degenerate branch when nothing is discounted.
C1_ParityOffDegenerate ==
    (BothPriced /\ (~BSDegenerate(params[1].sigma, params[1].T)
                    \/ params[1].T = 0 \/ params[1].r = 0)) =>
        /\ price["call"][1].exc = ""
        /\ price["put"][1].exc = ""
        /\ Abs(ParityGap) <= Tolerance

\* C2: on degenerate input (T <= 0 or sigma <= 0) black_scholes_price
\* returns exactly max(S0 - K, 0) for a call and max(K - S0, 0) for a put,
\* for every rate, and does not raise; a strike of 0, at which the d1
\* formula's S0 / K raises, is returned for like any other.
C2_DegenerateIsIntrinsic ==
    \A ot \in OptionTypes :
        (price[ot] # None /\ (params[1].T <= 0 \/ params[1].sigma <= 0)) =>
            /\ price[ot][1].exc = ""
            /\ price[ot][1].ret =
                  Some(IF ot = "call"
                       THEN Max(params[1].S0 - params[1].K, 0) * Scale
                       ELSE Max(params[1].K - params[1].S0, 0) * Scale)

\* A call in the money priced at zero volatility before expiry, a rate set.
C2_Witness ==
    /\ price["call"] # None
    /\ params[1].sigma = 0
    /\ params[1].T > 0
    /\ params[1].r > 0
    /\ params[1].S0 > params[1].K
    /\ params[1].K > 0
    /\ price["call"][1].ret = Some((params[1].S0 - params[1].K) * Scale)

\* C3: compute_greeks returns delta, gamma, vega, theta and rho all zero,
\* without raising, whenever T <= 0 or sigma <= 0, for both sides and every
\* S0, K and r; otherwise (K > 0) it returns exactly these five keys.
C3_DegenerateGreeksZero ==
    \A ot \in OptionTypes :
        greeks[ot] # None =>
            IF params[1].T <= 0 \/ params[1].sigma <= 0
            THEN /\ greeks[ot][1].exc = ""
                 /\ DOMAIN greeks[ot][1].ret[1] = GreekNames
                 /\ \A g \in GreekNames : greeks[ot][1].ret[1][g] = 0
            ELSE params[1].K > 0 =>
                    /\ greeks[ot][1].exc = ""
                    /\ DOMAIN greeks[ot][1].ret[1] = GreekNames

\* Both sides' Greeks taken at zero volatility before expiry.
C3_Witness ==
    /\ greeks["call"] # None
    /\ greeks["put"] # None
    /\ params[1].sigma = 0
    /\ params[1].T > 0
    /\ params[1].K > 0
    /\ greeks["put"][1].ret[1].delta = 0
(***************************************************************************)
(* Properties of implied_volatility, under SpecIV.                         *)
(***************************************************************************)
\* The market price of the call is at most the intrinsic value of its side,
\* or at most zero.
AtOrBelowIntrinsic ==
    \/ iv_args[1].market_price <= 0
    \/ /\ iv_args[1].option_type = "call"
       /\ iv_args[1].market_price
             <= Max(iv_args[1].S0 - iv_args[1].K, 0) * Scale
    \/ /\ iv_args[1].option_type = "put"
       /\ iv_args[1].market_price
             <= Max(iv_args[1].K - iv_args[1].S0, 0) * Scale

\* C4: whenever market_price <= intrinsic value or market_price <= 0,
\* implied_volatility returns None and root-finding is never started: the
\* root finder holds no bracket at any time and the return records no
\* outcome of brentq.
C4_RejectsWithoutRootFinding ==
    AtOrBelowIntrinsic =>
        /\ brent = None
        /\ iv_out # None =>
              iv_out[1] = [exc |-> "", ret |-> None, brentq |-> None]

\* A positive market price below the intrinsic value, returned for.
C4_Witness ==
    /\ iv_out # None
    /\ iv_args[1].market_price > 0
    /\ iv_args[1].option_type = "call"
    /\ iv_args[1].market_price < (iv_args[1].S0 - iv_args[1].K) * Scale
    /\ iv_out[1].ret = None
    /\ iv_out[1].brentq = None

\* C5: implied_volatility never raises: when brentq (or the pricing inside
\* it) raises, the return is None, and every result other than None lies in
\* the bracket [1e-4, 10.0], so it is never a numeric zero.
C5_NeverRaises ==
    iv_out # None =>
        /\ iv_out[1].exc = ""
        /\ (iv_out[1].brentq # None /\ iv_out[1].brentq[1].exc # "") =>
              iv_out[1].ret = None
        /\ iv_out[1].ret # None =>
              /\ iv_out[1].ret[1] >= Scale \div 10000
              /\ iv_out[1].ret[1] <= 10 * Scale
              /\ iv_out[1].ret[1] # 0

\* A market price no volatility of the bracket reaches: brentq raises
\* ValueError and None is returned.
C5_Witness ==
    /\ iv_out # None
    /\ iv_out[1].brentq = Some(Raised("ValueError"))
    /\ iv_out[1].exc = ""
    /\ iv_out[1].ret = None
    /\ iv_args[1].K > 0
(***************************************************************************)
(* Properties of generate_signal, under SpecSignal.                        *)
(***************************************************************************)
IsIvHv(s) == s.rule = "iv_hv"

IsDeviation(s) == s.rule = "deviation"

IsProbItm(s) == s.rule = "prob_itm"

\* The signals of each rule in the returned list.
IvHvEmitted == SelectSeq(sig_out[1].signals, IsIvHv)

DeviationEmitted == SelectSeq(sig_out[1].signals, IsDeviation)

ProbItmEmitted == SelectSeq(sig_out[1].signals, IsProbItm)

\* Both volatilities are available: given, and positive.
VolsAvailable ==
    /\ sig_args[1].iv # None
    /\ sig_args[1].hv # None
    /\ sig_args[1].iv[1] > 0
    /\ sig_args[1].hv[1] > 0

\* iv / hv against 1.3 and 0.75, compared without dividing.
RatioClass ==
    IF 10 * sig_args[1].iv[1] > 13 * sig_args[1].hv[1] THEN "expensive"
    ELSE IF 100 * sig_args[1].iv[1] < 75 * sig_args[1].hv[1] THEN "cheap"
    ELSE "fair"

\* C6: with both volatilities available exactly one IV/HV signal is
\* emitted; iv / hv > 1.3 gives the expensive signal and verdict EXPENSIVE,
\* iv / hv < 0.75 the cheap signal and verdict CHEAP, and every ratio from
\* 0.75 to 1.3, both ends included, the fairly-priced signal and NEUTRAL.
C6_RatioThresholds ==
    (sig_out # None /\ VolsAvailable) =>
        /\ Len(IvHvEmitted) = 1
        /\ IvHvEmitted[1].title = RatioClass
        /\ sig_out[1].verdict =
              (CASE RatioClass = "expensive" -> "EXPENSIVE"
                 [] RatioClass = "cheap" -> "CHEAP"
                 [] OTHER -> "NEUTRAL")

\* A ratio of exactly 1.3 (32.5% over 25%) judged fairly priced.
C6_Witness ==
    /\ sig_out # None
    /\ sig_args[1].iv = Some(325000)
    /\ sig_args[1].hv = Some(250000)
    /\ sig_out[1].verdict = "NEUTRAL"
    /\ Len(IvHvEmitted) = 1
    /\ IvHvEmitted[1].title = "fair"

\* C7: the verdict is one of EXPENSIVE, CHEAP, NEUTRAL and depends on the
\* two volatilities only: without one of them no IV/HV signal is emitted,
\* the verdict is NEUTRAL and the ratio None, whatever the deviation, the
\* days to expiry and delta are; with both, EXPENSIVE is returned exactly
\* for iv / hv > 1.3 and CHEAP exactly for iv / hv < 0.75.
C7_VerdictFromRatioAlone ==
    sig_out # None =>
        /\ sig_out[1].verdict \in {"EXPENSIVE", "CHEAP", "NEUTRAL"}
        /\ IF VolsAvailable
           THEN /\ sig_out[1].iv_hv_ratio # None
                /\ (sig_out[1].verdict = "EXPENSIVE")
                      <=> (RatioClass = "expensive")
                /\ (sig_out[1].verdict = "CHEAP") <=> (RatioClass = "cheap")
           ELSE /\ IvHvEmitted = << >>
                /\ sig_out[1].verdict = "NEUTRAL"
                /\ sig_out[1].iv_hv_ratio = None

\* No implied volatility, and the three other rules all emit: the market
\* 11% above the model, under 30 days left, a delta of 0.75.
C7_Witness ==
    /\ sig_out # None
    /\ sig_args[1].iv = None
    /\ sig_args[1].hv # None
    /\ Len(sig_out[1].signals) = 3
    /\ Len(DeviationEmitted) = 1
    /\ DeviationEmitted[1].title = "above"
    /\ Len(ProbItmEmitted) = 1
    /\ sig_out[1].verdict = "NEUTRAL"
    /\ sig_out[1].iv_hv_ratio = None
\* A market price exists: given, and positive.
MarketPriceExists ==
    /\ sig_args[1].market_price # None
    /\ sig_args[1].market_price[1] > 0

\* |market - model| / model > 10%, strictly, compared without dividing; a
\* model price of zero under a positive market price deviates without limit.
DeviatesOverTenPct ==
    10 * Abs(sig_args[1].market_price[1] - sig_args[1].bs_price)
        > sig_args[1].bs_price

\* C8: whenever a market price exists and |market - model| / model > 10%
\* strictly, exactly one deviation signal is emitted, of level "warning"
\* with the market above the model and "good" with it below; at 10% or
\* less, or without a market price, none is emitted.  The market price is
\* the only gate: a model price of zero does not suppress the rule.
C8_DeviationRule ==
    sig_out # None =>
        IF MarketPriceExists /\ DeviatesOverTenPct
        THEN /\ Len(DeviationEmitted) = 1
             /\ DeviationEmitted[1].level =
                   (IF sig_args[1].market_price[1] > sig_args[1].bs_price
                    THEN "warning" ELSE "good")
        ELSE DeviationEmitted = << >>

\* C9: the probability-of-ITM signal is emitted on every call, for every
\* delta, zero included, and reports |delta| x 100.
C9_ProbItmAlways ==
    sig_out # None =>
        /\ Len(ProbItmEmitted) = 1
        /\ ProbItmEmitted[1].value = 100 * Abs(sig_args[1].delta)

\* C10: with p = |delta| x 100, the commentary of the probability-of-ITM
\* signal is the long shot for p < 40, the near-the-money one for p between
\* 40 and 60, the high-probability one for p > 70, and is never the long
\* shot for p >= 40, so not for 60 <= p <= 70.
C10_CommentaryBands ==
    (sig_out # None /\ Len(ProbItmEmitted) = 1) =>
        /\ ProbItmEmitted[1].value < 40 * Scale =>
              ProbItmEmitted[1].comment = "long_shot"
        /\ (ProbItmEmitted[1].value > 40 * Scale
            /\ ProbItmEmitted[1].value < 60 * Scale) =>
              ProbItmEmitted[1].comment = "close_to_50_50"
        /\ ProbItmEmitted[1].value > 70 * Scale =>
              ProbItmEmitted[1].comment = "high_probability"
        /\ ProbItmEmitted[1].value >= 40 * Scale =>
              ProbItmEmitted[1].comment # "long_shot"
IsTimeDecay(s) == s.rule = "time_decay"

TimeDecayEmitted == SelectSeq(sig_out[1].signals, IsTimeDecay)

\* C11: a theta-decay signal of level "warning" is emitted if and only if
\* T_days < 30, strictly (none at exactly 30 days), whatever the other
\* three rules do.
C11_TimeDecayRule ==
    sig_out # None =>
        IF sig_args[1].T_days < 30 * Scale
        THEN /\ Len(TimeDecayEmitted) = 1
             /\ TimeDecayEmitted[1].level = "warning"
        ELSE TimeDecayEmitted = << >>

\* Exactly 30 days left: the three other rules emit, the time-decay rule
\* does not.
C11_Witness ==
    /\ sig_out # None
    /\ sig_args[1].T_days = 30 * Scale
    /\ TimeDecayEmitted = << >>
    /\ Len(IvHvEmitted) = 1
    /\ Len(DeviationEmitted) = 1
    /\ Len(ProbItmEmitted) = 1

\* The place of each rule in the order of the rules.
RuleRank(rule) ==
    CASE rule = "iv_hv" -> 1
      [] rule = "deviation" -> 2
      [] rule = "time_decay" -> 3
      [] rule = "prob_itm" -> 4
      [] OTHER -> 0

\* C12: the returned list holds at most one signal per rule, and the
\* signals appear in the order IV/HV, deviation, time decay,
\* probability-of-ITM: at most four entries, whichever rules emit.
C12_SignalOrder ==
    sig_out # None =>
        /\ Len(sig_out[1].signals) <= 4
        /\ \A i \in 1..Len(sig_out[1].signals) :
              RuleRank(sig_out[1].signals[i].rule) > 0
        /\ \A i \in 1..Len(sig_out[1].signals) :
              \A j \in 1..Len(sig_out[1].signals) :
                 i < j => RuleRank(sig_out[1].signals[i].rule)
                             < RuleRank(sig_out[1].signals[j].rule)

\* All four rules emitted, in the order of the rules.
C12_Witness ==
    /\ sig_out # None
    /\ Len(sig_out[1].signals) = 4
    /\ sig_out[1].signals[1].rule = "iv_hv"
    /\ sig_out[1].signals[2].rule = "deviation"
    /\ sig_out[1].signals[3].rule = "time_decay"
    /\ sig_out[1].signals[4].rule = "prob_itm"

\* C13: every signal carries a severity level from
\* {informational, good, warning, danger}.
C13_LevelsAsSpecified ==
    sig_out # None =>
        \A i \in 1..Len(sig_out[1].signals) :
            sig_out[1].signals[i].level
                \in {"informational", "good", "warning", "danger"}

\* C13 as amended: every signal carries a level from
\* {neutral, good, warning, danger}; the level of the purely informative
\* signals is spelled "neutral".
C13_LevelsAsCoded ==
    sig_out # None =>
        \A i \in 1..Len(sig_out[1].signals) :
            sig_out[1].signals[i].level
                \in {"neutral", "good", "warning", "danger"}

\* A fairly-priced signal and a probability signal, both of level
\* "neutral", beside a "good" and a "warning" one.
C13_Witness ==
    /\ sig_out # None
    /\ Len(sig_out[1].signals) = 4
    /\ sig_out[1].signals[1].level = "neutral"
    /\ sig_out[1].signals[2].level = "good"
    /\ sig_out[1].signals[3].level = "warning"
    /\ sig_out[1].signals[4].level = "neutral"
(***************************************************************************)
(* Properties of monte_carlo_price, under SpecMC.                          *)
(***************************************************************************)
\* C14: monte_carlo_price prices over a sample of 2 * floor(n_paths / 2)
\* draws (an odd count rounds down), and for every i up to
\* floor(n_paths / 2) the draw at i + floor(n_paths / 2) is the exact
\* negation of the draw at i.
C14_AntitheticSample ==
    mc_out # None =>
        /\ Size(mc_out[1].Z_full) = 2 * (mc_args[1].n_paths \div 2)
        /\ \A i \in 1..(mc_args[1].n_paths \div 2) :
              At(mc_out[1].Z_full, i + mc_args[1].n_paths \div 2)
                 = -At(mc_out[1].Z_full, i)

\* Five paths asked for, four draws priced: one deviation up, the mean,
\* and their negations in the same order.
C14_Witness ==
    /\ mc_out # None
    /\ mc_args[1].n_paths = 5
    /\ Size(mc_out[1].Z_full) = 4
    /\ At(mc_out[1].Z_full, 1) = Scale
    /\ At(mc_out[1].Z_full, 2) = 0
    /\ At(mc_out[1].Z_full, 3) = -Scale
    /\ At(mc_out[1].Z_full, 4) = 0
\* The rounding the fixed-point arithmetic allows in a Monte Carlo
\* estimate, in units of 1 / Scale.
MCTolerance == 200

\* C15: for every positive path count, 1 included, monte_carlo_price
\* returns a defined price >= 0 and a defined standard error >= 0.
C15_DefinedEstimate ==
    (mc_out # None /\ mc_args[1].n_paths >= 1) =>
        /\ mc_out[1].price # NaN
        /\ mc_out[1].price >= 0
        /\ mc_out[1].se # NaN
        /\ mc_out[1].se >= 0

\* C15, the part the code keeps: from two paths on, the price and the
\* standard error are defined and not negative.
C15_DefinedFromTwoPaths ==
    (mc_out # None /\ mc_args[1].n_paths >= 2) =>
        /\ mc_out[1].price # NaN
        /\ mc_out[1].price >= 0
        /\ mc_out[1].se # NaN
        /\ mc_out[1].se >= 0

\* The closed-form price for the arguments of the Monte Carlo call.
ClosedForm ==
    black_scholes_price(mc_args[1].S0, mc_args[1].K, mc_args[1].r,
                        mc_args[1].sigma, mc_args[1].T,
                        mc_args[1].option_type).ret[1]

\* C16, its deterministic cases: with at least 50,000 paths and sigma = 0
\* or T = 0 the standard error is 0 and the Monte Carlo estimate, being
\* within 4 standard errors of black_scholes_price, coincides with it.
C16_DeterministicAgreement ==
    (/\ mc_out # None
     /\ mc_args[1].n_paths >= 50000
     /\ (mc_args[1].sigma = 0 \/ mc_args[1].T = 0)) =>
        /\ mc_out[1].se = 0
        /\ Abs(mc_out[1].price - ClosedForm)
              <= 4 * mc_out[1].se + MCTolerance

\* C16, the deterministic cases in which the code agrees: at expiry, and
\* at zero volatility when nothing is discounted.
C16_AgreementAtExpiry ==
    (/\ mc_out # None
     /\ mc_args[1].n_paths >= 50000
     /\ (mc_args[1].T = 0 \/ (mc_args[1].sigma = 0 /\ mc_args[1].r = 0))) =>
        /\ mc_out[1].se = 0
        /\ Abs(mc_out[1].price - ClosedForm)
              <= 4 * mc_out[1].se + MCTolerance
(***************************************************************************)
(* Properties of the path simulations, under SpecPaths.                    *)
(***************************************************************************)
\* The rounding the fixed-point arithmetic allows in a simulated price, in
\* units of 1 / Scale.
PathTolerance == 500

\* exp((r - sigma^2 / 2) dt + sigma sqrt(dt) Z[i][j]) for the arguments and
\* the draw of the simulate_gbm_paths call.
GrowthFactor(i, j) ==
    Exp(LogReturn(path_args[1].r, path_args[1].sigma,
                  StepSize(path_args[1].T, path_args[1].steps),
                  gbm_out[1].Z[i][j]))

\* C17: simulate_gbm_paths returns a time grid of exactly steps + 1 evenly
\* spaced points from 0 to T and a matrix of exactly n_paths rows by
\* steps + 1 columns; every row starts at S0, point j + 1 of a path is
\* point j times exp((r - sigma^2 / 2) dt + sigma sqrt(dt) Z[j]), and every
\* price is strictly positive.
C17_GbmPathShape ==
    gbm_out # None =>
        /\ Len(gbm_out[1].t) = path_args[1].steps + 1
        /\ gbm_out[1].t[1] = 0
        /\ gbm_out[1].t[path_args[1].steps + 1] = path_args[1].T
        /\ \A j \in 1..path_args[1].steps :
              Abs((gbm_out[1].t[j + 1] - gbm_out[1].t[j])
                     * path_args[1].steps - path_args[1].T)
                 <= path_args[1].steps
        /\ Len(gbm_out[1].paths) = path_args[1].n_paths
        /\ \A i \in 1..path_args[1].n_paths :
              /\ Len(gbm_out[1].paths[i]) = path_args[1].steps + 1
              /\ gbm_out[1].paths[i][1] = path_args[1].S0 * Scale
              /\ \A j \in 1..Len(gbm_out[1].paths[i]) :
                    gbm_out[1].paths[i][j] > 0
              /\ \A j \in 1..path_args[1].steps :
                    Abs(gbm_out[1].paths[i][j + 1]
                        - Mul(gbm_out[1].paths[i][j], GrowthFactor(i, j)))
                       <= PathTolerance

\* Two paths of two steps at 20% volatility: one falls and recovers, the
\* other rises twice.
C17_Witness ==
    /\ gbm_out # None
    /\ path_args[1].steps = 2
    /\ path_args[1].n_paths = 2
    /\ path_args[1].sigma > 0
    /\ path_args[1].r > 0
    /\ gbm_out[1].Z = << << -Scale, Scale >>, << Scale, Scale >> >>
    /\ gbm_out[1].paths[1][2] < gbm_out[1].paths[1][1]
    /\ gbm_out[1].paths[1][3] > gbm_out[1].paths[1][2]
    /\ gbm_out[1].paths[2][3] > gbm_out[1].paths[2][2]
\* Some point of path i of the barrier call, the start S0 at t = 0
\* included, is at or below the barrier.
TouchesBarrier(i) ==
    \/ path_args[1].S0 <= path_args[1].B
    \/ \E j \in 1..Len(barrier_out[1].paths[i]) :
          barrier_out[1].paths[i][j] <= path_args[1].B * Scale

\* max(S_T - K, 0) for path i of the barrier call.
VanillaPayoff(i) == Max(barrier_out[1].S_T[i] - path_args[1].K * Scale, 0)

\* C18: for every path of barrier_option_mc, if any of its steps + 1 points
\* from t = 0 to T is <= B the payoff is 0 whatever the terminal value, and
\* otherwise it is max(S_T - K, 0); a path that starts at S0 <= B is knocked
\* out.
C18_KnockOutAtEveryPoint ==
    barrier_out # None =>
        \A i \in 1..path_args[1].n_paths :
            barrier_out[1].payoff[i] =
                (IF TouchesBarrier(i) THEN 0 ELSE VanillaPayoff(i))

\* C18, the part the code keeps: with the barrier below the spot, a path
\* pays 0 if a point after t = 0 is <= B and max(S_T - K, 0) otherwise.
C18_KnockOutBelowSpot ==
    (barrier_out # None /\ path_args[1].B < path_args[1].S0) =>
        \A i \in 1..path_args[1].n_paths :
            barrier_out[1].payoff[i] =
                (IF TouchesBarrier(i) THEN 0 ELSE VanillaPayoff(i))

\* The vanilla payoffs of the paths of the barrier call.
VanillaPayoffs == [i \in 1..path_args[1].n_paths |-> VanillaPayoff(i)]

\* C19: knock-out only removes value: on the simulated paths each path's
\* barrier payoff is >= 0 and <= that path's vanilla call payoff
\* max(S_T - K, 0), so the barrier price is >= 0 and at most the discounted
\* mean of the vanilla payoffs over the same paths.
C19_KnockOutRemovesValue ==
    barrier_out # None =>
        /\ \A i \in 1..path_args[1].n_paths :
              /\ barrier_out[1].payoff[i] >= 0
              /\ barrier_out[1].payoff[i] <= VanillaPayoff(i)
        /\ barrier_out[1].price >= 0
        /\ barrier_out[1].price
              <= Mul(Exp(-Mul(path_args[1].r, path_args[1].T)),
                     RowMean(VanillaPayoffs)) + 1

\* A barrier below the spot: the first path falls through it and ends in
\* the money, paying nothing; the second stays above it and pays its
\* vanilla payoff.
C19_Witness ==
    /\ barrier_out # None
    /\ path_args[1].B < path_args[1].S0
    /\ path_args[1].n_paths = 2
    /\ barrier_out[1].knocked_out = << TRUE, FALSE >>
    /\ VanillaPayoff(1) > 0
    /\ barrier_out[1].payoff[1] = 0
    /\ barrier_out[1].payoff[2] > 0
    /\ barrier_out[1].payoff[2] = VanillaPayoff(2)
    /\ barrier_out[1].price > 0

\* C20: asian_option_mc averages each path over the points the path
\* generator produces: every path it averages has steps + 1 points, t = 0
\* included, as the paths of simulate_gbm_paths have.
C20_AsianAveragesFullPath ==
    asian_out # None =>
        \A i \in 1..path_args[1].n_paths :
            Len(asian_out[1].paths[i]) = path_args[1].steps + 1

(***************************************************************************)
(* Properties of convergence_data, under SpecConv.                         *)
(***************************************************************************)
\* The discounted payoffs of the sample the call drew.
PayoffsOfDraw ==
    DiscountedPayoffs(
        TerminalPrices(conv_args[1].S0, conv_args[1].r, conv_args[1].sigma,
                       conv_args[1].T, conv_out[1].Z_all),
        conv_args[1].K, Exp(-Mul(conv_args[1].r, conv_args[1].T)),
        conv_args[1].option_type)

\* The number of payoffs behind the i-th reported point.
Averaged(i) == Size(conv_out[1].used[i])

\* C21: convergence_data draws one sample of max_paths normals; the
\* estimate reported for the size n_i is the mean of the first n_i
\* discounted payoffs of that sample (of all of them when the sample has
\* fewer), so the payoffs behind one point are a prefix of those behind
\* the next, and the reported error is |estimate - closed-form price|.
C21_SingleDrawPrefix ==
    conv_out # None =>
        /\ Size(conv_out[1].Z_all) = conv_args[1].max_paths
        /\ conv_out[1].payoffs = PayoffsOfDraw
        /\ conv_out[1].bs
              = black_scholes_price(conv_args[1].S0, conv_args[1].K,
                                    conv_args[1].r, conv_args[1].sigma,
                                    conv_args[1].T,
                                    conv_args[1].option_type).ret[1]
        /\ \A i \in DOMAIN conv_out[1].path_counts :
              /\ Averaged(i) = Min(conv_out[1].path_counts[i],
                                   conv_args[1].max_paths)
              /\ \A k \in 1..Averaged(i) :
                    At(conv_out[1].used[i], k) = At(conv_out[1].payoffs, k)
              /\ conv_out[1].mc_prices[i] = Mean(conv_out[1].used[i])
              /\ conv_out[1].errors[i]
                    = Abs(conv_out[1].mc_prices[i] - conv_out[1].bs)
              /\ i > 1 => Averaged(i - 1) <= Averaged(i)

\* A call over 150 draws, 75 one deviation up and then 75 one deviation
\* down: the estimate over the first 100 is above the one over all 150.
C21_Witness ==
    /\ conv_out # None
    /\ conv_args[1].max_paths = 150
    /\ conv_args[1].option_type = "call"
    /\ conv_out[1].Z_all = << Run(Scale, 75), Run(-Scale, 75) >>
    /\ conv_out[1].path_counts[1] = 100
    /\ conv_out[1].path_counts[Len(conv_out[1].path_counts)] = 150
    /\ conv_out[1].mc_prices[1]
          > conv_out[1].mc_prices[Len(conv_out[1].path_counts)]

\* C22: for every max_paths, below 100 included, the sizes reported by
\* convergence_data increase strictly, none exceeds max_paths, and each
\* is the number of payoffs averaged for its point.
C22_SizesWithinSample ==
    conv_out # None =>
        \A i \in DOMAIN conv_out[1].path_counts :
            /\ i > 1 => conv_out[1].path_counts[i - 1]
                           < conv_out[1].path_counts[i]
            /\ conv_out[1].path_counts[i] <= conv_args[1].max_paths
            /\ conv_out[1].path_counts[i] = Averaged(i)

\* C22, the part the code keeps: the sizes increase strictly, and from a
\* max_paths of 100 on none exceeds it and each counts what was averaged.
C22_SizesFromHundred ==
    conv_out # None =>
        \A i \in DOMAIN conv_out[1].path_counts :
            /\ i > 1 => conv_out[1].path_counts[i - 1]
                           < conv_out[1].path_counts[i]
            /\ conv_args[1].max_paths >= LogSpaceFirst =>
                  /\ conv_out[1].path_counts[i] <= conv_args[1].max_paths
                  /\ conv_out[1].path_counts[i] = Averaged(i)

(***************************************************************************)
(* Properties of the pricing functions at the boundary, under              *)
(* SpecBoundary.                                                           *)
(***************************************************************************)
\* The parameters the contract allows: a positive spot and strike, a rate,
\* a volatility and a time that are not negative, a side that is "call"
\* or "put".
ValidArgs(a) ==
    /\ a.S0 > 0
    /\ a.K > 0
    /\ a.r >= 0
    /\ a.sigma >= 0
    /\ a.T >= 0
    /\ a.option_type \in OptionTypes

\* An outcome that tells the caller the input was refused: an exception,
\* or no value.
Refused(o) == o.exc # "" \/ o.ret = None

\* C23: black_scholes_price and monte_carlo_price refuse invalid
\* parameters (a non-positive spot or strike, a negative rate, volatility
\* or time, a side that is neither "call" nor "put") instead of returning
\* a price for them: an invalid input never comes back as a value.
C23_InvalidIsRefused ==
    \A f \in PricingFunctions :
        (/\ bnd_args # None
         /\ bnd_out # None
         /\ bnd_out[f] # None
         /\ ~ValidArgs(bnd_args[1])) => Refused(bnd_out[f][1])

(***************************************************************************)
(* The round trip through implied_volatility, under SpecRoundTrip.         *)
(***************************************************************************)
\* The distance within which the round trip recovers a volatility: 1e-4.
IVTolerance == Scale \div 10000

\* The market price is what black_scholes_price returns at sigma.
GeneratedAt(sigma) ==
    iv_args[1].market_price
        = black_scholes_price(iv_args[1].S0, iv_args[1].K, iv_args[1].r,
                              sigma, iv_args[1].T,
                              iv_args[1].option_type).ret[1]

\* implied_volatility returned a volatility within 1e-4 of sigma.
Recovers(sigma) ==
    /\ iv_out[1].exc = ""
    /\ iv_out[1].ret # None
    /\ Abs(iv_out[1].ret[1] - sigma) <= IVTolerance

ResponsiveVols == {Pct(10), Pct(30), Scale}

AppHasMarketPrice ==
    /\ app_args[1].market_price # None
    /\ app_args[1].market_price[1] # 0

\* The chain gave a positive implied volatility for the strike.
AppHasChainVol ==
    /\ app_args[1].market_iv # None
    /\ app_args[1].market_iv[1] > 0

\* The signals of the IV/HV rule among those the run's generate_signal
\* returned.
AppIvHvSignals == SelectSeq(app[1].sig_ret[1].signals, IsIvHv)

\* C25: when generate_signal is called, black_scholes_price,
\* monte_carlo_price and compute_greeks have been called, all three with
\* the same parameters; implied_volatility is called only when the chain
\* gave a market price and no positive implied vol; and when it returns
\* None, generate_signal receives None for the implied vol and emits no
\* IV/HV signal.
C25_PricingRunOrder ==
    app # None =>
        /\ app[1].sig_call # None =>
              /\ app[1].bs_call # None
              /\ app[1].mc_call # None
              /\ app[1].greeks_call # None
              /\ app[1].bs_call[1] = app[1].greeks_call[1]
              /\ app[1].bs_call[1] = app[1].mc_call[1].args
              /\ app[1].bs_call[1].S0 = app_args[1].S0
              /\ app[1].bs_call[1].K = app_args[1].K
              /\ app[1].bs_call[1].r = app_args[1].r
              /\ app[1].bs_call[1].T = app_args[1].T
              /\ app[1].bs_call[1].option_type = app_args[1].option_type
        /\ app[1].iv_call # None => (AppHasMarketPrice /\ ~AppHasChainVol)
        /\ (/\ app[1].iv_call # None
            /\ app[1].iv_ret[1].ret = None
            /\ app[1].sig_call # None) =>
              /\ app[1].sig_call[1].iv = None
              /\ AppIvHvSignals = << >>
              /\ app[1].sig_ret[1].iv_hv_ratio = None

\* A finished run whose market price of 8 is below the call's intrinsic
\* value of 10: the solver was called and returned None, and with a
\* historical vol of 25% at hand no IV/HV signal was emitted.
C25_Witness ==
    /\ app # None
    /\ app[1].pc = "done"
    /\ app_args[1].S0 = 110
    /\ app_args[1].option_type = "call"
    /\ app_args[1].market_price = Some(8 * Scale)
    /\ app_args[1].hv_value = Some(Pct(25))
    /\ app[1].iv_call # None
    /\ app[1].iv_ret[1].ret = None
    /\ app[1].sig_call[1].iv = None
    /\ AppIvHvSignals = << >>

(***************************************************************************)
(* implied_volatility at and after expiry, under SpecIV.                   *)
(***************************************************************************)
\* C26: for T <= 0 implied_volatility returns None, for every market price
\* and both sides, and raises nothing: either the precondition rejects
\* the price, or the root finder, for which the model price is the
\* intrinsic value at every sigma, finds no sign change over its bracket.
C26_ExpiredHasNoImpliedVol ==
    (iv_out # None /\ iv_args[1].T <= 0) =>
        /\ iv_out[1].exc = ""
        /\ iv_out[1].ret = None
        /\ IF AtOrBelowIntrinsic THEN iv_out[1].brentq = None
           ELSE /\ iv_out[1].brentq # None
                /\ iv_out[1].brentq[1].exc = "ValueError"

\* At expiry, a market price of 12 for a call whose intrinsic value is 10:
\* the root finder was entered, raised ValueError, and None came back.
C26_Witness ==
    /\ iv_out # None
    /\ iv_args[1].T = 0
    /\ iv_args[1].S0 = 110
    /\ iv_args[1].K = 100
    /\ iv_args[1].option_type = "call"
    /\ iv_args[1].market_price = 12 * Scale
    /\ iv_out[1].brentq # None
    /\ iv_out[1].brentq[1].exc = "ValueError"
    /\ iv_out[1].ret = None

(***************************************************************************)
(* monte_carlo_price at expiry, under SpecMC.                              *)
(***************************************************************************)
\* Every terminal price simulated from the sample of the call is S0.
AllTerminalAtSpot ==
    \A i \in DOMAIN mc_out[1].Z_full :
        TerminalPrice(mc_args[1].S0, mc_args[1].r, mc_args[1].sigma,
                      mc_args[1].T, mc_out[1].Z_full[i].x)
            = mc_args[1].S0 * Scale

VerdictColours ==
    { << "EXPENSIVE", "red" >>, << "CHEAP", "green" >>,
      << "NEUTRAL", "gray" >> }

\* C28: the verdict and the colour generate_signal returns are EXPENSIVE
\* with red, CHEAP with green or NEUTRAL with gray, never another pair,
\* and the returned iv_hv_ratio is None exactly when the list of signals
\* has no IV/HV signal.
C28_VerdictColourAndRatio ==
    sig_out # None =>
        /\ << sig_out[1].verdict, sig_out[1].verdict_color >>
              \in VerdictColours
        /\ (sig_out[1].iv_hv_ratio = None) <=> (Len(IvHvEmitted) = 0)

\* A cheap verdict in green with its ratio and its IV/HV signal, returned
\* together with a signal of the deviation rule.
C28_Witness ==
    /\ sig_out # None
    /\ sig_out[1].verdict = "CHEAP"
    /\ sig_out[1].verdict_color = "green"
    /\ sig_out[1].iv_hv_ratio # None
    /\ sig_out[1].iv_hv_ratio[1] < CheapRatio
    /\ Len(IvHvEmitted) = 1
    /\ Len(DeviationEmitted) = 1

(***************************************************************************)
(* The volatility the app prices with, under SpecVol.                      *)
(***************************************************************************)
VolChosen == vol_out # None /\ vol_out[1].sigma_for_pricing # None

\* The choice of line 570 in the claim's words.
VolCascade ==
    VolChosen =>
        vol_out[1].sigma_for_pricing[1] =
            IF /\ vol_args[1].market_iv # None
               /\ StrictlyPositive(vol_args[1].market_iv[1])
            THEN vol_args[1].market_iv[1]
            ELSE IF /\ vol_out[1].hv_value # None
                    /\ vol_out[1].hv_value[1] # 0
            THEN vol_out[1].hv_value[1]
            ELSE DefaultVol

\* The pricers never see sigma <= 0.
VolNeverDegenerate ==
    (vol_out # None /\ vol_out[1].degenerate # None) =>
        vol_out[1].degenerate[1] = FALSE

\* The historical volatility is never negative: None, nan, or >= 0.
VolHistoricalNonNegative ==
    (vol_out # None /\ vol_out[1].hv_value # None) =>
        vol_out[1].hv_value[1] = NaN \/ vol_out[1].hv_value[1] >= 0

\* C29: the volatility the app prices with is always strictly positive:
\* the chain's implied vol when present and > 0, otherwise the historical
\* vol when present and non-zero, otherwise 0.25; so the pricers never
\* take their sigma <= 0 branch.
C29_PricingVolPositive ==
    /\ VolCascade
    /\ VolNeverDegenerate
    /\ VolChosen => StrictlyPositive(vol_out[1].sigma_for_pricing[1])

\* A history of exactly `Window` rows passes the test of line 39 with one
\* return too few, its volatility is nan, and nan is what is priced with.
VolNanPriced ==
    /\ VolChosen
    /\ ~vol_args[1].raises
    /\ vol_args[1].rows = Window
    /\ vol_args[1].market_iv = None
    /\ vol_out[1].hv_value = Some(NaN)
    /\ vol_out[1].hv_history = Some(<< >>)
    /\ vol_out[1].sigma_for_pricing = Some(NaN)

\* With a defined historical volatility the chosen one is positive.
VolPositiveWhenDefined ==
    (VolChosen /\ vol_out[1].hv_value # Some(NaN)) =>
        StrictlyPositive(vol_out[1].sigma_for_pricing[1])

(***************************************************************************)
(* What get_options_chain returns, under SpecChain.                        *)
(***************************************************************************)
\* The list the fetch of the call gave, and its expiries with their days.
ChainListed == Options(chain_args[1])

ChainDays(exp) == DaysTo(exp, chain_args[1].today)

\* The listed expiries at least 7 days out.
ChainQualifying ==
    {ChainListed[i] : i \in {j \in DOMAIN ChainListed :
                                ChainDays(ChainListed[j]) >= MinDays}}

ChainReturned == chain_out[1].expirations[1]

\* The call comes back empty-handed: (None, None).
ChainEmpty == chain_out[1].tk = None /\ chain_out[1].expirations = None

\* The returned expiries are at least 7 days out, in increasing order of
\* their days, at most 6, and the nearest of the listed ones that are at
\* least 7 days out.
ChainNearestSorted ==
    /\ chain_out[1].tk # None
    /\ Len(ChainReturned) = Min(Cardinality(ChainQualifying), MaxExpiries)
    /\ Len(ChainReturned) >= 1
    /\ \A i \in DOMAIN ChainReturned :
           /\ ChainReturned[i] \in ChainQualifying
           /\ ChainDays(ChainReturned[i]) >= MinDays
    /\ \A i \in DOMAIN ChainReturned : \A j \in DOMAIN ChainReturned :
           i < j => ChainDays(ChainReturned[i]) < ChainDays(ChainReturned[j])
    /\ \A e \in ChainQualifying :
           (\A i \in DOMAIN ChainReturned : ChainReturned[i] # e) =>
               \A i \in DOMAIN ChainReturned :
                   ChainDays(ChainReturned[i]) <= ChainDays(e)

\* The cases the claim names for (None, None).
ChainNothingToReturn ==
    \/ chain_args[1].raises
    \/ ChainListed = << >>
    \/ ChainQualifying = {}

\* C30: get_options_chain returns only expiries at least 7 days out, in
\* increasing order of days to expiry, and at most the 6 nearest of them;
\* when the provider lists none, none is 7 days out or the fetch raises,
\* it returns (None, None); it returns in every case.
C30_NearestExpiries ==
    chain_out # None =>
        /\ ChainEmpty \/ ChainNearestSorted
        /\ ChainNothingToReturn => ChainEmpty

\* Nine expiries listed latest first, on a day that has begun: the one a
\* week from today counts 6 days, seven are at least 7 days out and the
\* six nearest come back, nearest first.
C30_Witness ==
    /\ chain_out # None
    /\ chain_args[1].listed = ExpiryDates
    /\ chain_args[1].descending
    /\ chain_args[1].today = "later"
    /\ ~chain_args[1].raises
    /\ ~chain_args[1].malformed
    /\ Cardinality(ChainQualifying) = MaxExpiries + 1
    /\ Len(ChainReturned) = MaxExpiries
    /\ ChainReturned[1].date = 8
    /\ ChainReturned[MaxExpiries].date = 42

\* A string that is no date in the list: nothing is returned, though
\* expiries at least 7 days out are listed.
ChainMalformedGivesNothing ==
    (chain_out # None /\ chain_args[1].malformed) => ChainEmpty
============================================================================
